---- MODULE Spec2Model ----
(***************************************************************************)
(* RemoteDesk2K relay server: the connection table, the per-connection     *)
(* worker (ClientWorkerThread) and the relay protocol handlers             *)
(* (ProcessRelayMessage), as implemented by src/linux/relay.c, and the     *)
(* Windows build of the same server (src/relay/relay.c) as the             *)
(* specification SpecWin.                                                  *)
(*                                                                         *)
(* A connection object is identified by its heap address.  free() returns  *)
(* the address to the allocator and calloc() may hand it out again, so a   *)
(* pPartner pointer that outlives its target refers to whatever object     *)
(* lives at that address next.                                             *)
(*                                                                         *)
(* The state is the relay's memory: the heap of RELAY_CONNECTION objects   *)
(* and the table pServer->connections.  What the relay writes to sockets   *)
(* is not kept in the state: every handler and every worker iteration is   *)
(* an operator that yields the new heap, the new table and the frames it   *)
(* wrote, in order; the actions apply these operators, and the properties  *)
(* about responses and notifications are stated on their results in every  *)
(* reachable state.                                                        *)
(*                                                                         *)
(* Time: the code compares GetTickCount() - lastActivity with 5000 ms.     *)
(* The model stores that difference (field idle) instead of the two        *)
(* absolute tick counts; "lastActivity = GetTickCount()" is idle = 0 and   *)
(* the passage of time adds TickMs to every idle, saturating at IdleCap.   *)
(* Spec is the relay while no connection reaches an inactivity limit,      *)
(* SpecTimed the relay with the clock running.                             *)
(***************************************************************************)
EXTENDS Integers, Sequences, FiniteSets, TLC

(* ---------------------------- bounds ----------------------------------- *)
\* heap addresses available for RELAY_CONNECTION objects
NumAddr == 3
\* slots of pServer->connections (RELAY_MAX_CONNECTIONS is 1024 in the code)
MaxSlots == 3
\* connection objects that exist at once while the clock runs (SpecTimed)
MaxTimedSlots == 2
\* client ids range over 0..MaxId (0 is what calloc leaves in clientId)
MaxId == 2
\* granularity of the clock, in milliseconds
TickMs == 2500
\* longest RELAY_MSG_DATA payload, in bytes
MaxPayload == 2
\* handshake passwords range over 0..MaxPassword
MaxPassword == 2
\* the password GeneratePassword() gives the host at start-up
FirstPassword == 1
\* accepted sockets the host may lose track of
MaxOrphans == 2
\* the receive buffer holds MaxDataLength payload bytes (4 MB in the code)
MaxDataLength == 8
\* relay processes started on the one machine
NumProcs == 2
\* lock files that come to exist over a run (each open(O_CREAT) of a missing
\* path makes a new one)
MaxInodes == 2
\* connections a relay process serves at once
MaxWorkers == 1
\* file names in MSG_FILE_START have at most MaxName characters
MaxName == 2
\* chunks a received file holds at most
MaxChunks == 1
\* chunks of the file that is sent
SendFileChunks == 1
\* window messages posted and not yet handled
MaxPosted == 1
\* pixel bytes of the captured screen (pixelDataSize)
ScreenBytes == 300
\* bytes of the short rectangles that are compressed
MaxRect == 6
\* input events are numbered 1..MaxStamp in arrival order, then again from 1
MaxStamp == 512
\* frames a relay client sends before its connection breaks
MaxFrames == 2
\* connections the relay accepts in a run with clients that send any frames
MaxThreads == 2
\* events on g_relaySocket that are kept
MaxWire == 6
\* chunks of the file whose frames are followed on the byte stream
WireChunks == 2
\* pieces of a frame's payload; one send() takes one or more of them
PayloadSends == 2

(* ------------------------- program constants --------------------------- *)
NULL == 0
INVALID_SOCKET == -1
RD2K_SUCCESS == 0
RD2K_ERR_CONNECT == -2
RD2K_ERR_RECV == -4
RD2K_ERR_PROTOCOL == -7
FT_STATE_IDLE == 0
FT_STATE_SENDING == 1
FT_STATE_RECEIVING == 2
FT_SUCCESS == 0
FT_ERR_FILE_TOO_LARGE == 2
FT_ERR_MEMORY == 3
FT_ERR_WRITE == 5
FT_ERR_NETWORK == 6
FT_ERR_BUSY == 7
FT_ERR_CREATE_FILE == 8
FT_ERR_CANCELLED == 9
\* SendFileThreadProc and FileTransfer_SendFileSync: maxRetries
THREAD_MAX_RETRIES == 3
SYNC_MAX_RETRIES == 5
\* Sleep(100 * retryCount), and the Sleep before MSG_FILE_END
RETRY_DELAY_MS == 100
END_DELAY_MS == 100
CRYPTO_SUCCESS == 0
CRYPTO_ERR_INVALID == -1
\* Relay_Destroy: usleep(500000), in milliseconds
DRAIN_WAIT_MS == 500
\* a DWORD is held as two 16-bit halves, each below 2^16
HalfWord == 65536
RELAY_STATE_CONNECTED == 0
RELAY_STATE_REGISTERED == 1
RELAY_STATE_PAIRED == 3
RELAY_STATE_DISCONNECTED == 4
RELAY_DISCONNECT_NORMAL == 0
RELAY_DISCONNECT_TIMEOUT == 2
RELAY_DISCONNECT_PARTNER_LEFT == 3
CLIENT_INACTIVITY_TIMEOUT_MS == 5000
REGISTERED_TIMEOUT_MS == 5000
STATE_DISCONNECTED == 0
STATE_LISTENING == 1
STATE_HANDSHAKE == 3
STATE_CONNECTED == 4
RECONNECT_MAX_ATTEMPTS == 5
RECONNECT_DELAY_MS == 2000
INPUT_QUEUE_SIZE == 256
INPUT_EVT_MOUSE == 1
INPUT_EVT_KEY == 2

Addr == 1..NumAddr
Slots == 1..MaxSlots
Ids == 0..MaxId
IdleCap == CLIENT_INACTIVITY_TIMEOUT_MS + TickMs
\* header.flags of a received frame: bit 0 says the payload is encrypted
Flags == {0, 1}
\* byte values payloads are made of, and the payloads of RELAY_MSG_DATA
SampleBytes == {0, 255}
Payloads == UNION {[1..n -> SampleBytes] : n \in 0..MaxPayload}
\* the payload of the RELAY_MSG_DATA frames the workers receive
ArrivingData == [k \in 1..MaxPayload |-> 255]

VARIABLES
    conn,         \* heap: address -> RELAY_CONNECTION (or FreedConn)
    connections,  \* pServer->connections: slot -> address or NULL
    app,          \* the host application: g_pServerNet and the g_b* flags
    inputQueue,   \* the host's input ring: g_inputQueue, head and tail
    call,         \* one call of a pure routine: its arguments and its result
    inst,         \* the relay processes on one machine and their lock file
    ft,           \* the file transfer: g_ftContext, the disk and the wire
    workers,      \* the relay's worker threads: where each one is, its locals
    link          \* the viewer's link to the relay: its threads and g_relaySocket

vars == <<conn, connections, app, inputQueue, call, inst, ft, workers, link>>

(* ------------------------------ heap ----------------------------------- *)
\* memory returned to the allocator
FreedConn ==
    [alloc |-> FALSE, socket |-> INVALID_SOCKET, clientId |-> 0,
     state |-> RELAY_STATE_DISCONNECTED, pPartner |-> NULL, idle |-> 0,
     shouldStop |-> TRUE, running |-> FALSE]

\* calloc + the initialisation of AddConnection; the worker's first statement
\* sets lastActivity = GetTickCount()
NewConn(a) ==
    [alloc |-> TRUE, socket |-> a, clientId |-> 0,
     state |-> RELAY_STATE_CONNECTED, pPartner |-> NULL, idle |-> 0,
     shouldStop |-> FALSE, running |-> TRUE]

ActiveConnections(tbl) == Cardinality({i \in Slots : tbl[i] # NULL})

\* the slot AddConnection's loop finds: the first empty one
FirstFreeSlot(tbl) ==
    CHOOSE i \in Slots : tbl[i] = NULL /\ \A j \in Slots : j < i => tbl[j] # NULL

(* ------------------------------ crypto --------------------------------- *)
\* crypto.c: bytes are 0..255; the tables are indexed from 0 in the code and
\* from 1 here
g_SBox ==
    << 99, 124, 119, 123, 242, 107, 111, 197,  48,   1, 103,  43, 254, 215, 171, 118,
      202, 130, 201, 125, 250,  89,  71, 240, 173, 212, 162, 175, 156, 164, 114, 192,
      183, 253, 147,  38,  54,  63, 247, 204,  52, 165, 229, 241, 113, 216,  49,  21,
        4, 199,  35, 195,  24, 150,   5, 154,   7,  18, 128, 226, 235,  39, 178, 117,
        9, 131,  44,  26,  27, 110,  90, 160,  82,  59, 214, 179,  41, 227,  47, 132,
       83, 209,   0, 237,  32, 252, 177,  91, 106, 203, 190,  57,  74,  76,  88, 207,
      208, 239, 170, 251,  67,  77,  51, 133,  69, 249,   2, 127,  80,  60, 159, 168,
       81, 163,  64, 143, 146, 157,  56, 245, 188, 182, 218,  33,  16, 255, 243, 210,
      205,  12,  19, 236,  95, 151,  68,  23, 196, 167, 126,  61, 100,  93,  25, 115,
       96, 129,  79, 220,  34,  42, 144, 136,  70, 238, 184,  20, 222,  94,  11, 219,
      224,  50,  58,  10,  73,   6,  36,  92, 194, 211, 172,  98, 145, 149, 228, 121,
      231, 200,  55, 109, 141, 213,  78, 169, 108,  86, 244, 234, 101, 122, 174,   8,
      186, 120,  37,  46,  28, 166, 180, 198, 232, 221, 116,  31,  75, 189, 139, 138,
      112,  62, 181, 102,  72,   3, 246,  14,  97,  53,  87, 185, 134, 193,  29, 158,
      225, 248, 152,  17, 105, 217, 142, 148, 155,  30, 135, 233, 206,  85,  40, 223,
      140, 161, 137,  13, 191, 230,  66, 104,  65, 153,  45,  15, 176,  84, 187,  22>>

g_InvSBox ==
    << 82,   9, 106, 213,  48,  54, 165,  56, 191,  64, 163, 158, 129, 243, 215, 251,
      124, 227,  57, 130, 155,  47, 255, 135,  52, 142,  67,  68, 196, 222, 233, 203,
       84, 123, 148,  50, 166, 194,  35,  61, 238,  76, 149,  11,  66, 250, 195,  78,
        8,  46, 161, 102,  40, 217,  36, 178, 118,  91, 162,  73, 109, 139, 209,  37,
      114, 248, 246, 100, 134, 104, 152,  22, 212, 164,  92, 204,  93, 101, 182, 146,
      108, 112,  72,  80, 253, 237, 185, 218,  94,  21,  70,  87, 167, 141, 157, 132,
      144, 216, 171,   0, 140, 188, 211,  10, 247, 228,  88,   5, 184, 179,  69,   6,
      208,  44,  30, 143, 202,  63,  15,   2, 193, 175, 189,   3,   1,  19, 138, 107,
       58, 145,  17,  65,  79, 103, 220, 234, 151, 242, 207, 206, 240, 180, 230, 115,
      150, 172, 116,  34, 231, 173,  53, 133, 226, 249,  55, 232,  28, 117, 223, 110,
       71, 241,  26, 113,  29,  41, 197, 137, 111, 183,  98,  14, 170,  24, 190,  27,
      252,  86,  62,  75, 198, 210, 121,  32, 154, 219, 192, 254, 120, 205,  90, 244,
       31, 221, 168,  51, 136,   7, 199,  49, 177,  18,  16,  89,  39, 128, 236,  95,
       96,  81, 127, 169,  25, 181,  74,  13,  45, 229, 122, 159, 147, 201, 156, 239,
      160, 224,  59,  77, 174,  42, 245, 176, 200, 235, 187,  60, 131,  83, 153,  97,
       23,  43,   4, 126, 186, 119, 214,  38, 225, 105,  20,  99,  85,  33,  12, 125>>

g_DefaultKey ==
    << 82,  68,  50,  75, 222, 173, 190, 239, 202, 254, 186, 190,  32,   0,  32,  38>>

\* bitwise exclusive or of two bytes
RECURSIVE XorBits(_, _, _)
XorBits(x, y, n) ==
    IF n = 0 THEN 0
    ELSE (IF x % 2 = y % 2 THEN 0 ELSE 1) + 2 * XorBits(x \div 2, y \div 2, n - 1)

\* the exclusive or of every pair of bytes, computed once
XorTable == [x \in 0..255 |-> [y \in 0..255 |-> XorBits(x, y, 8)]]

Xor(x, y) == XorTable[x][y]

RotateLeft(value, shift) ==
    LET s == shift % 8
    IN  ((value * 2 ^ s) + (value \div 2 ^ (8 - s))) % 256

RotateRight(value, shift) ==
    LET s == shift % 8
    IN  ((value \div 2 ^ s) + (value * 2 ^ (8 - s))) % 256

\* one round of Crypto_Encrypt's loop, on the byte at offset i (from 0)
EncryptByte(b, i) ==
    LET keyByte == g_DefaultKey[(i % 16) + 1]
        t1 == g_SBox[Xor(b, keyByte) + 1]
        t2 == RotateLeft(t1, ((i + 1) % 7) + 1)
    IN  Xor(t2, (i * 37) % 256)

\* one round of Crypto_Decrypt's loop
DecryptByte(b, i) ==
    LET t1 == Xor(b, (i * 37) % 256)
        t2 == RotateRight(t1, ((i + 1) % 7) + 1)
        t3 == g_InvSBox[t2 + 1]
    IN  Xor(t3, g_DefaultKey[(i % 16) + 1])

Crypto_Encrypt(data) == [k \in 1..Len(data) |-> EncryptByte(data[k], k - 1)]

Crypto_Decrypt(data) == [k \in 1..Len(data) |-> DecryptByte(data[k], k - 1)]

(* ------------------------------ frames --------------------------------- *)
\* SendRelayPacket(sock, msgType, data, dataLength); d1, d2 are the two
\* DWORDs of the 8-byte payload structs, 0 when dataLength = 0
Frame(sock, msgType, dataLength, d1, d2) ==
    [to |-> sock, msgType |-> msgType, dataLength |-> dataLength,
     d1 |-> d1, d2 |-> d2]

\* nothing is written on INVALID_SOCKET
SendRelayPacket(sock, msgType, dataLength, d1, d2) ==
    IF sock = INVALID_SOCKET THEN <<>>
    ELSE <<Frame(sock, msgType, dataLength, d1, d2)>>

\* the payload ProcessRelayMessage works on: decrypted in place when bit 0 of
\* header.flags is set and the payload is not empty
Decoded(flags, data) ==
    IF flags % 2 = 1 /\ Len(data) > 0 THEN Crypto_Decrypt(data) ELSE data

\* SendRelayPacket of RELAY_MSG_DATA: every frame goes out with flags 0x01
\* and its payload encrypted; d1 holds the bytes as they are on the wire
SendData(sock, data) ==
    SendRelayPacket(sock, "DATA", Len(data),
                    IF Len(data) > 0 THEN Crypto_Encrypt(data) ELSE data, 0)

(* --------------------------- table lookups ----------------------------- *)
FindMatches(cs, tbl, clientId) ==
    {i \in Slots : /\ tbl[i] # NULL
                   /\ cs[tbl[i]].clientId = clientId
                   /\ cs[tbl[i]].state # RELAY_STATE_DISCONNECTED}

FindConnectionById(cs, tbl, clientId) ==
    LET m == FindMatches(cs, tbl, clientId)
    IN  IF m = {} THEN NULL
        ELSE tbl[CHOOSE i \in m : \A j \in m : i <= j]

\* a relay that protects only fresh registrations
StaleProtectedFreshOnly(c) ==
    c.state = RELAY_STATE_REGISTERED /\ c.idle < REGISTERED_TIMEOUT_MS

\* a relay that protects only paired holders
StaleProtectedPairedOnly(c) == c.state = RELAY_STATE_PAIRED

\* a relay that never expires a registration
StaleProtectedForever(c) ==
    c.state \in {RELAY_STATE_PAIRED, RELAY_STATE_REGISTERED}

\* RemoveStaleConnections: a holder of the id that is kept (and makes the
\* id unavailable)
StaleProtected(c) ==
    \/ c.state = RELAY_STATE_PAIRED
    \/ c.state = RELAY_STATE_REGISTERED /\ c.idle < REGISTERED_TIMEOUT_MS

StaleMatches(cs, tbl, clientId, pExclude) ==
    {i \in Slots : /\ tbl[i] # NULL
                   /\ tbl[i] # pExclude
                   /\ cs[tbl[i]].clientId = clientId}

StaleRemoved(cs, tbl, clientId, pExclude) ==
    {i \in StaleMatches(cs, tbl, clientId, pExclude) : ~StaleProtected(cs[tbl[i]])}

RemoveStaleConnections(cs, tbl, clientId, pExclude) ==
    LET gone == StaleRemoved(cs, tbl, clientId, pExclude)
        goneAddr == {tbl[i] : i \in gone}
    IN  [conn |-> [a \in Addr |->
                     IF a \in goneAddr
                     THEN [cs[a] EXCEPT !.shouldStop = TRUE,
                                        !.socket = INVALID_SOCKET,
                                        !.state = RELAY_STATE_DISCONNECTED]
                     ELSE cs[a]],
         connections |-> [i \in Slots |-> IF i \in gone THEN NULL ELSE tbl[i]],
         bIdAvailable |-> \A i \in StaleMatches(cs, tbl, clientId, pExclude) :
                              ~StaleProtected(cs[tbl[i]]),
         cleaned |-> goneAddr]

\* RemoveStaleConnections: the sockets it calls close() on between
\* pthread_mutex_lock(&connMutex) and pthread_mutex_unlock(&connMutex)
ClosedUnderMutex(cs, tbl, clientId, pExclude) ==
    {cs[tbl[i]].socket : i \in {j \in StaleRemoved(cs, tbl, clientId, pExclude) :
                                   cs[tbl[j]].socket # INVALID_SOCKET}}

\* Relay_Stop: the sockets it calls shutdown() on between
\* pthread_mutex_lock(&connMutex) and pthread_mutex_unlock(&connMutex)
ShutDownUnderMutex(cs, tbl) ==
    {cs[tbl[i]].socket : i \in {j \in Slots : /\ tbl[j] # NULL
                                              /\ cs[tbl[j]].socket # INVALID_SOCKET}}

(* ------------------------ worker thread exit --------------------------- *)
\* the cleanup at the end of ClientWorkerThread: notify the partner, leave
\* the table, close the socket, free the object
PartnerReachable(cs, p) ==
    p # NULL /\ cs[p].alloc /\ cs[p].socket # INVALID_SOCKET

WorkerCleanup(cs, tbl, a) ==
    LET p == cs[a].pPartner
        notify == PartnerReachable(cs, p)
        cs1 == IF notify
               THEN [cs EXCEPT ![p].pPartner = NULL,
                               ![p].state = RELAY_STATE_DISCONNECTED]
               ELSE cs
    IN  [conn |-> [cs1 EXCEPT ![a] = FreedConn],
         connections |-> [i \in Slots |-> IF tbl[i] = a THEN NULL ELSE tbl[i]],
         wire |-> IF notify
                  THEN SendRelayPacket(cs[p].socket, "PARTNER_DISCONNECTED", 8,
                                       RELAY_DISCONNECT_PARTNER_LEFT, cs[a].clientId)
                  ELSE <<>>]

(* ------------------------ ProcessRelayMessage ------------------------- *)
\* each handler yields the heap, the table, the frames written and the
\* handler's return value (0: keep the connection, otherwise the worker
\* leaves its loop)
Handled(cs, tbl, w, result) ==
    [conn |-> cs, connections |-> tbl, wire |-> w, result |-> result]

\* case RELAY_MSG_REGISTER
ProcessRegister(cs, tbl, a, clientId) ==
    LET r == RemoveStaleConnections(cs, tbl, clientId, a)
    IN  IF ~r.bIdAvailable
        THEN Handled(r.conn, r.connections,
                     SendRelayPacket(r.conn[a].socket, "REGISTER_RESPONSE", 8,
                                     "RELAY_REGISTER_DUPLICATE", 0),
                     -1)
        ELSE Handled([r.conn EXCEPT ![a].clientId = clientId,
                                    ![a].state = RELAY_STATE_REGISTERED,
                                    ![a].idle = 0],
                     r.connections,
                     SendRelayPacket(r.conn[a].socket, "REGISTER_RESPONSE", 8,
                                     "RELAY_REGISTER_OK", 0),
                     0)

\* a relay that pairs with a busy target
ConnectStatusNoBusy(cs, pPartner) ==
    IF pPartner = NULL THEN RD2K_ERR_CONNECT
    ELSE IF cs[pPartner].state \notin {RELAY_STATE_REGISTERED, RELAY_STATE_PAIRED}
         THEN RD2K_ERR_CONNECT
    ELSE RD2K_SUCCESS

\* case RELAY_MSG_CONNECT_REQUEST: the status the relay answers with
ConnectStatus(cs, pPartner) ==
    IF pPartner = NULL THEN RD2K_ERR_CONNECT
    ELSE IF cs[pPartner].state = RELAY_STATE_PAIRED THEN RD2K_ERR_CONNECT
    ELSE IF cs[pPartner].state # RELAY_STATE_REGISTERED THEN RD2K_ERR_CONNECT
    ELSE RD2K_SUCCESS

\* the pairing branch: both pointers, both states, the partner's activity
PairConnections(cs, a, pPartner) ==
    LET cs1 == [cs EXCEPT ![a].pPartner = pPartner]
        cs2 == [cs1 EXCEPT ![pPartner].pPartner = a]
        cs3 == [cs2 EXCEPT ![a].state = RELAY_STATE_PAIRED]
        cs4 == [cs3 EXCEPT ![pPartner].state = RELAY_STATE_PAIRED]
    IN  [cs4 EXCEPT ![pPartner].idle = 0]

\* the notification the pairing branch writes to the partner's socket
NotifyPartnerConnected(cs, a, pPartner) ==
    SendRelayPacket(cs[pPartner].socket, "PARTNER_CONNECTED", 8, cs[a].clientId, 0)

ProcessConnectRequest(cs, tbl, a, partnerId) ==
    LET pPartner == FindConnectionById(cs, tbl, partnerId)
        status == ConnectStatus(cs, pPartner)
        paired == status = RD2K_SUCCESS
        cs1 == IF paired THEN PairConnections(cs, a, pPartner) ELSE cs
    IN  Handled([cs1 EXCEPT ![a].idle = 0], tbl,
                (IF paired THEN NotifyPartnerConnected(cs, a, pPartner) ELSE <<>>)
                \o SendRelayPacket(cs[a].socket, "CONNECT_RESPONSE", 8, status, 0),
                0)

\* case RELAY_MSG_DATA: forward to the partner, refresh both activity stamps
ProcessData(cs, tbl, a, flags, data) ==
    LET p == cs[a].pPartner
        fwd == PartnerReachable(cs, p)
        cs1 == IF fwd THEN [cs EXCEPT ![p].idle = 0] ELSE cs
    IN  Handled([cs1 EXCEPT ![a].idle = 0], tbl,
                IF fwd THEN SendData(cs[p].socket, Decoded(flags, data))
                ELSE <<>>,
                0)

\* case RELAY_MSG_DISCONNECT
ProcessDisconnect(cs, tbl, a) ==
    LET p == cs[a].pPartner
        cs1 == [cs EXCEPT ![a].state = RELAY_STATE_DISCONNECTED]
        live == p # NULL /\ cs[p].alloc
        cs2 == IF live
               THEN [cs1 EXCEPT ![p].state = RELAY_STATE_DISCONNECTED,
                                ![p].pPartner = NULL]
               ELSE cs1
    IN  Handled([cs2 EXCEPT ![a].pPartner = NULL], tbl,
                IF live
                THEN SendRelayPacket(cs[p].socket, "PARTNER_DISCONNECTED", 0, 0, 0)
                ELSE <<>>,
                1)

\* case RELAY_MSG_PING
ProcessPingNoRefresh(cs, tbl, a) ==
    Handled(cs, tbl, SendRelayPacket(cs[a].socket, "PONG", 0, 0, 0), 0)

ProcessPing(cs, tbl, a) ==
    Handled([cs EXCEPT ![a].idle = 0], tbl,
            SendRelayPacket(cs[a].socket, "PONG", 0, 0, 0), 0)

\* default: unknown message type
ProcessUnknown(cs, tbl, a) == Handled(cs, tbl, <<>>, -1)

(* ------------- host application (src/client/remotedesk2k.c) ------------ *)
(* The host side of the client program after StartServer: g_pServerNet     *)
(* listens for direct connections, the relay socket is shared with the     *)
(* relay link, and ProcessServerNetwork runs on every network timer tick.  *)
(* The viewer side of the same program is idle: g_bConnecting and          *)
(* g_bClientConnected2 are FALSE and g_useCustomPassword is FALSE.         *)
(* A socket is named by what it is: "direct" is the socket accept()        *)
(* returned, "relay" is the open g_relaySocket, "stale" is the handle of a *)
(* relay socket that has been closed, "INVALID" is INVALID_SOCKET.         *)

Passwords == 0..MaxPassword

\* the state after StartServer(): Network_Create, Network_Listen
InitApp ==
    [listenSocket      |-> TRUE,       \* g_pServerNet->listenSocket is open
     socket            |-> "INVALID",  \* g_pServerNet->socket
     relaySocket       |-> "INVALID",  \* g_pServerNet->relaySocket
     state             |-> STATE_LISTENING,
     bRelayMode        |-> FALSE,
     bClientConnected  |-> FALSE,      \* g_bClientConnected
     bConnectedToRelay |-> FALSE,      \* g_bConnectedToRelay, g_relaySocket open
     bReconnecting     |-> FALSE,      \* g_bReconnecting
     myPassword        |-> FirstPassword,  \* g_myPassword
     orphans           |-> 0]          \* open accepted sockets nothing refers to

g_relaySocket(n) == IF n.bConnectedToRelay THEN "relay" ELSE "INVALID"

\* closesocket(g_relaySocket): every copy of the handle is now stale
CloseRelaySocket(n) ==
    [n EXCEPT !.bConnectedToRelay = FALSE,
              !.socket = IF @ = "relay" THEN "stale" ELSE @,
              !.relaySocket = IF @ = "relay" THEN "stale" ELSE @]

\* what a handler of the host yields: the new application state, the
\* packets it sent (socket and message type) and the sockets it closed
HostOut(n, wire, closed) == [app |-> n, wire |-> wire, closed |-> closed]

Network_Listen(n) ==
    [n EXCEPT !.listenSocket = TRUE, !.state = STATE_LISTENING]

\* pNet->socket is overwritten, whatever it held
Network_Accept(n) ==
    [n EXCEPT !.socket = "direct", !.state = STATE_HANDSHAKE,
              !.orphans = IF n.socket = "direct" THEN @ + 1 ELSE @]

Network_Disconnect(n) ==
    [n EXCEPT !.socket = "INVALID", !.listenSocket = FALSE,
              !.state = STATE_DISCONNECTED]

\* the sockets Network_Disconnect closes
DisconnectCloses(n) == IF n.socket \in {"direct", "relay"} THEN {n.socket} ELSE {}

\* what a receive on a socket can give: nothing pending, a failed or short
\* read, a packet that is not a handshake, or a handshake
NoPacket == [kind |-> "none", magic |-> FALSE, password |-> 0]
Packets ==
    {NoPacket,
     [kind |-> "failed", magic |-> FALSE, password |-> 0],
     [kind |-> "other", magic |-> FALSE, password |-> 0]}
    \cup [kind : {"handshake"}, magic : BOOLEAN, password : Passwords]

\* pHandshake->magic == RD2K_MAGIC and pHandshake->password == g_myPassword
AuthOk(n, pkt) == pkt.magic /\ pkt.password = n.myPassword

\* the "refresh password" button: g_myPassword = GeneratePassword()
RefreshPassword(n, p) == [n EXCEPT !.myPassword = p]

Ack(sock) == <<[sock |-> sock, type |-> "HANDSHAKE_ACK"]>>

\* the relay block of ProcessServerNetwork: a handshake that authenticates
\* starts the session on the relay socket, anything else changes nothing
RelayBranch(n, pkt) ==
    IF /\ ~n.bClientConnected
       /\ n.bConnectedToRelay
       /\ pkt.kind = "handshake"
       /\ AuthOk(n, pkt)
    THEN HostOut([n EXCEPT !.bRelayMode = TRUE,
                           !.relaySocket = "relay",
                           !.socket = "relay",
                           !.bClientConnected = TRUE,
                           !.state = STATE_CONNECTED,
                           !.orphans = IF n.socket = "direct" THEN @ + 1 ELSE @],
                 Ack("relay"), {})
    ELSE HostOut(n, <<>>, {})

\* the direct block of ProcessServerNetwork
DirectBranch(n, pkt) ==
    IF pkt.kind = "none"
    THEN HostOut(n, <<>>, {})
    ELSE LET a == Network_Accept(n) IN
         IF pkt.kind = "handshake"
         THEN IF AuthOk(n, pkt)
              THEN HostOut([a EXCEPT !.bClientConnected = TRUE,
                                     !.state = STATE_CONNECTED],
                           Ack("direct"), {})
              ELSE HostOut(Network_Listen(Network_Disconnect(a)),
                           <<>>, DisconnectCloses(a))
         ELSE HostOut(a, <<>>, {})

\* a Sleep that returns at once
SleptNothing(ms) == [op |-> "sleep", ms |-> 0]

\* what HandleRelayServerLost does in its loop: AttemptRelayReconnection()
\* and Sleep(ms)
Attempted == [op |-> "attempt", ms |-> 0]
Slept(ms) == [op |-> "sleep", ms |-> ms]

\* the attempts of HandleRelayServerLost from attempt number attempt on:
\* outcomes[k] says whether AttemptRelayReconnection succeeds the k-th time
RECURSIVE ReconnectLoop(_, _, _, _)
ReconnectLoop(n, attempt, outcomes, log) ==
    IF attempt > RECONNECT_MAX_ATTEMPTS
    THEN [app |-> n, log |-> log, reconnected |-> FALSE]
    ELSE IF outcomes[attempt]
         THEN [app |-> [n EXCEPT !.bConnectedToRelay = TRUE],
               log |-> Append(log, Attempted), reconnected |-> TRUE]
         ELSE IF attempt < RECONNECT_MAX_ATTEMPTS
              THEN ReconnectLoop(n, attempt + 1, outcomes,
                                 log \o <<Attempted, Slept(RECONNECT_DELAY_MS)>>)
              ELSE ReconnectLoop(n, attempt + 1, outcomes,
                                 Append(log, Attempted))

Outcomes == [1..RECONNECT_MAX_ATTEMPTS -> BOOLEAN]

DisconnectFromRelayServer(n) == CloseRelaySocket(n)

\* HandleRelayServerLost: the new state, the attempts and sleeps in order
\* (log), and the sockets closed
HandleRelayServerLost(n, outcomes) ==
    IF n.bReconnecting
    THEN [app |-> n, log |-> <<>>, closed |-> {}, wire |-> <<>>]
    ELSE LET n1 == CloseRelaySocket([n EXCEPT !.bReconnecting = TRUE,
                                              !.bClientConnected = FALSE])
             l  == ReconnectLoop(n1, 1, outcomes, <<>>)
             n2 == [l.app EXCEPT !.bReconnecting = FALSE]
         IN  [app    |-> IF l.reconnected THEN n2
                         ELSE DisconnectFromRelayServer(n2),
              log    |-> l.log,
              closed |-> IF n.bConnectedToRelay THEN {"relay"} ELSE {},
              wire   |-> <<>>]

\* the detach of the shared relay socket that precedes Network_Disconnect
DetachRelay(n) ==
    IF n.bRelayMode /\ n.relaySocket = g_relaySocket(n)
    THEN [n EXCEPT !.relaySocket = "INVALID", !.socket = "INVALID",
                   !.bRelayMode = FALSE]
    ELSE n

\* the end of a session: detach, Network_Disconnect, Network_Listen
EndSession(n) ==
    LET d == DetachRelay([n EXCEPT !.bClientConnected = FALSE])
    IN  HostOut(Network_Listen(Network_Disconnect(d)), <<>>, DisconnectCloses(d))

HandlePartnerDisconnect(n) == EndSession(n)

\* the results of Network_RecvPacket in a session
SessionResults == {"none", "message", "error", "partner_left", "server_lost"}

\* the connected block of ProcessServerNetwork, one packet
SessionBranch(n, result, outcomes) ==
    IF result \in {"none", "message"}
    THEN HostOut(n, <<>>, {})
    ELSE IF n.bRelayMode /\ result = "server_lost"
         THEN LET h == HandleRelayServerLost(n, outcomes)
              IN  HostOut(h.app, h.wire, h.closed)
         ELSE IF n.bRelayMode /\ result = "partner_left"
              THEN HandlePartnerDisconnect(n)
              ELSE EndSession(n)

\* one call of ProcessServerNetwork
ProcessServerNetwork(n, relayIn, directIn, result, outcomes) ==
    LET r == RelayBranch(n, relayIn) IN
    IF r.app.bClientConnected /\ ~n.bClientConnected
    THEN r
    ELSE IF ~n.bClientConnected /\ n.listenSocket
         THEN DirectBranch(n, directIn)
         ELSE IF n.bClientConnected /\ n.socket # "INVALID"
              THEN SessionBranch(n, result, outcomes)
              ELSE HostOut(n, <<>>, {})

\* the TIMER_RELAY_CHECK handler: alive says what Relay_CheckConnection found
RelayCheck(n, alive, outcomes) ==
    IF n.bConnectedToRelay /\ ~n.bClientConnected /\ ~alive
    THEN HandleRelayServerLost(n, outcomes)
    ELSE [app |-> n, log |-> <<>>, closed |-> {}, wire |-> <<>>]

\* the "Connect to Server" button: disconnects when connected, connects and
\* registers otherwise (ok says whether that succeeded)
ConnectToRelayServer(n, ok) ==
    IF n.bConnectedToRelay
    THEN CloseRelaySocket(n)
    ELSE IF ok THEN [n EXCEPT !.bConnectedToRelay = TRUE] ELSE n

(* ------------------- input queue (src/client/input.c) ------------------ *)
(* g_inputQueue is a ring of INPUT_QUEUE_SIZE slots, g_inputQueueHead the  *)
(* write position and g_inputQueueTail the read position.  Events are      *)
(* numbered in the order they arrive, 1..MaxStamp and round again, so that *)
(* the events in the ring are told apart; 0 is the zeroed static array.    *)

QueueSlots == 0..(INPUT_QUEUE_SIZE - 1)

\* the state after Input_Initialize()
InitInputQueue ==
    [bInitialized |-> TRUE,
     buf          |-> [i \in QueueSlots |-> 0],
     head         |-> 0,
     tail         |-> 0,
     nextEvent    |-> 1]

\* a ring that overwrites without moving its read position
QueueInputEventNoDrop(q, evt) ==
    IF ~q.bInitialized
    THEN q
    ELSE [q EXCEPT !.buf[q.head] = evt,
                   !.head = (q.head + 1) % INPUT_QUEUE_SIZE]

QueueInputEvent(q, evt) ==
    IF ~q.bInitialized
    THEN q
    ELSE LET nextHead == (q.head + 1) % INPUT_QUEUE_SIZE IN
         [q EXCEPT !.tail = IF nextHead = q.tail
                            THEN (q.tail + 1) % INPUT_QUEUE_SIZE ELSE @,
                   !.buf[q.head] = evt,
                   !.head = nextHead]

\* a stack: the newest event leaves first
DequeueNewest(q) ==
    IF q.head # q.tail
    THEN LET last == (q.head + INPUT_QUEUE_SIZE - 1) % INPUT_QUEUE_SIZE IN
         [queue |-> [q EXCEPT !.head = last], hasEvent |-> TRUE,
          evt |-> q.buf[last]]
    ELSE [queue |-> q, hasEvent |-> FALSE, evt |-> 0]

DequeueInputEvent(q) ==
    IF q.head # q.tail
    THEN [queue    |-> [q EXCEPT !.tail = (q.tail + 1) % INPUT_QUEUE_SIZE],
          hasEvent |-> TRUE,
          evt      |-> q.buf[q.tail]]
    ELSE [queue |-> q, hasEvent |-> FALSE, evt |-> 0]

\* the events waiting in the ring, oldest first
PendingCount(q) == (q.head - q.tail + INPUT_QUEUE_SIZE) % INPUT_QUEUE_SIZE
Pending(q) ==
    [k \in 1..PendingCount(q) |-> q.buf[(q.tail + k - 1) % INPUT_QUEUE_SIZE]]

\* evt.type of the event with arrival number evt: the network delivers
\* mouse and keyboard events mixed, every third one a keyboard event
EventType(evt) == IF evt % 3 = 0 THEN INPUT_EVT_KEY ELSE INPUT_EVT_MOUSE

\* what the body of InputThreadProc's inner loop injects for evt
Injection(evt) ==
    IF EventType(evt) = INPUT_EVT_MOUSE
    THEN [call |-> "DoMouse", evt |-> evt]
    ELSE IF EventType(evt) = INPUT_EVT_KEY
         THEN [call |-> "DoKeyPress", evt |-> evt]
         ELSE [call |-> "none", evt |-> evt]

\* one pass of InputThreadProc's inner loop: the injection it makes, if any
OnInputThread(q) ==
    LET d == DequeueInputEvent(q)
    IN  IF d.hasEvent THEN <<Injection(d.evt)>> ELSE <<>>

(* ---------------------------- pure routines --------------------------- *)
\* no pure routine has been called
NoCall == [fn |-> "none", in |-> <<>>, out |-> <<>>, done |-> TRUE]

\* a routine about to be called with the arguments in
Calling(fn, in) == [fn |-> fn, in |-> in, out |-> <<>>, done |-> FALSE]

\* the routine has returned out
Returned(c, out) == [c EXCEPT !.out = out, !.done = TRUE]

(* ---------------------------- packet framing --------------------------- *)
\* the DWORD v, as its high and low 16 bits
DWord(hi, lo) == [hi |-> hi, lo |-> lo]

\* one step of CalculateChecksum on a DWORD:
\* checksum = ((checksum << 5) + checksum) + data[i], wrapping at 2^32
ChecksumStep(checksum, byte) ==
    LET lo == (checksum.lo * 33) + byte
        hi == (checksum.hi * 33) + (lo \div HalfWord)
    IN  DWord(hi % HalfWord, lo % HalfWord)

RECURSIVE ChecksumFrom(_, _, _)
ChecksumFrom(data, i, checksum) ==
    IF i > Len(data) THEN checksum
    ELSE ChecksumFrom(data, i + 1, ChecksumStep(checksum, data[i]))

\* CalculateChecksum: the checksum of a payload
CalculateChecksum(data) == ChecksumFrom(data, 1, DWord(0, 0))

\* Network_SendPacket: the header written for a payload
SentHeader(data) ==
    [dataLength |-> Len(data),
     checksum |-> IF Len(data) > 0 THEN CalculateChecksum(data) ELSE DWord(0, 0)]

\* the DWORD next to v
Successor(v) ==
    IF v.lo + 1 < HalfWord THEN DWord(v.hi, v.lo + 1)
    ELSE DWord((v.hi + 1) % HalfWord, 0)

\* the payloads a peer sends: short ones, one whose checksum wraps 32 bits,
\* one longer than the receive buffer
FramePayloads ==
    UNION {[1..n -> SampleBytes] : n \in 0..MaxPayload}
      \cup {[k \in 1..MaxDataLength |-> 255], [k \in 1..(MaxDataLength + 1) |-> 1]}

\* the frames that arrive: header checksum right, off by one, or zero;
\* recv may fail on the header or on the payload
Frames ==
    UNION {{[payload |-> p, dataLength |-> Len(p), checksum |-> c, failAt |-> f] :
               c \in {SentHeader(p).checksum, Successor(CalculateChecksum(p)),
                      DWord(0, 0), DWord(0, 1)},
               f \in {"none", "header", "payload"}} :
           p \in FramePayloads}

\* Network_RecvPacket: the result code for an arriving frame
Network_RecvPacket(frame, maxDataLength) ==
    IF frame.failAt = "header" THEN RD2K_ERR_RECV
    ELSE IF frame.dataLength > 0
         THEN IF frame.dataLength > maxDataLength THEN RD2K_ERR_PROTOCOL
              ELSE IF frame.failAt = "payload" THEN RD2K_ERR_RECV
              ELSE IF CalculateChecksum(frame.payload) # frame.checksum
                   THEN RD2K_ERR_PROTOCOL
                   ELSE RD2K_SUCCESS
         ELSE RD2K_SUCCESS

(* ------------------------------ Server ID ------------------------------ *)
\* g_ServerIdAlphabet: the characters of the string literal; the array's
\* next element, index 31, is the literal's terminating '\0'
g_ServerIdAlphabet ==
    <<"A", "B", "C", "D", "E", "F", "G", "H", "J", "K", "M", "N", "P", "Q", "R", "S",
      "T", "U", "V", "W", "X", "Y", "Z", "2", "3", "4", "5", "6", "7", "8", "9">>

\* the character '\0'
Nul == "NUL"

\* g_ServerIdAlphabet[index], for index in 0..31
AlphabetAt(index) ==
    IF index < Len(g_ServerIdAlphabet) THEN g_ServerIdAlphabet[index + 1] ELSE Nul

\* the C string held in a char buffer: what precedes the first '\0'
RECURSIVE CString(_)
CString(buf) ==
    IF buf = <<>> \/ Head(buf) = Nul THEN <<>>
    ELSE <<Head(buf)>> \o CString(Tail(buf))

\* EncodeBase32: while (bitCount >= 5) emit a character. Of bitBuffer the
\* model keeps the low bitCount bits, the only ones the code reads again
RECURSIVE EmitChars(_, _, _)
EmitChars(bitBuffer, bitCount, output) ==
    IF bitCount >= 5
    THEN EmitChars(bitBuffer % (2 ^ (bitCount - 5)), bitCount - 5,
                   Append(output, AlphabetAt((bitBuffer \div (2 ^ (bitCount - 5))) % 32)))
    ELSE [bitBuffer |-> bitBuffer, bitCount |-> bitCount, output |-> output]

\* EncodeBase32 from data[i] on
RECURSIVE EncodeBase32From(_, _, _, _, _)
EncodeBase32From(data, i, bitBuffer, bitCount, output) ==
    IF i > Len(data)
    THEN IF bitCount > 0
         THEN Append(output, AlphabetAt((bitBuffer * (2 ^ (5 - bitCount))) % 32))
         ELSE output
    ELSE LET e == EmitChars((bitBuffer * 256) + data[i], bitCount + 8, output)
         IN  EncodeBase32From(data, i + 1, e.bitBuffer, e.bitCount, e.output)

\* EncodeBase32: the output buffer, before its terminating '\0'
EncodeBase32(data) == EncodeBase32From(data, 1, 0, 0, <<>>)

\* strchr(g_ServerIdAlphabet, c) - g_ServerIdAlphabet, or -1 when not found
CharVal(c) ==
    IF \E k \in DOMAIN g_ServerIdAlphabet : g_ServerIdAlphabet[k] = c
    THEN (CHOOSE k \in DOMAIN g_ServerIdAlphabet : g_ServerIdAlphabet[k] = c) - 1
    ELSE -1

\* DecodeBase32: while (bitCount >= 8 && outIdx < maxOutLen) emit a byte
RECURSIVE EmitBytes(_, _, _, _)
EmitBytes(bitBuffer, bitCount, output, maxOutLen) ==
    IF bitCount >= 8 /\ Len(output) < maxOutLen
    THEN EmitBytes(bitBuffer % (2 ^ (bitCount - 8)), bitCount - 8,
                   Append(output, (bitBuffer \div (2 ^ (bitCount - 8))) % 256),
                   maxOutLen)
    ELSE [bitBuffer |-> bitBuffer, bitCount |-> bitCount, output |-> output]

\* DecodeBase32 from input[i] on: the bytes decoded, or <<-1>> for an
\* invalid character
RECURSIVE DecodeBase32From(_, _, _, _, _, _)
DecodeBase32From(input, i, bitBuffer, bitCount, output, maxOutLen) ==
    IF i > Len(input) \/ Len(output) >= maxOutLen THEN output
    ELSE IF input[i] = "-"
    THEN DecodeBase32From(input, i + 1, bitBuffer, bitCount, output, maxOutLen)
    ELSE IF CharVal(input[i]) = -1 THEN <<-1>>
    ELSE LET e == EmitBytes((bitBuffer * 32) + CharVal(input[i]), bitCount + 5,
                            output, maxOutLen)
         IN  DecodeBase32From(input, i + 1, e.bitBuffer, e.bitCount, e.output,
                              maxOutLen)

DecodeBase32(input, maxOutLen) == DecodeBase32From(input, 1, 0, 0, <<>>, maxOutLen)

\* FormatServerID: a dash before every fourth character of the C string raw
FormatServerID(raw) ==
    LET Dashed(k) == IF k > 1 /\ (k - 1) % 4 = 0 THEN <<"-", raw[k]>> ELSE <<raw[k]>>
        F[k \in 0..Len(raw)] == IF k = 0 THEN <<>> ELSE F[k - 1] \o Dashed(k)
    IN  F[Len(raw)]

\* UnformatServerID
UnformatServerID(formatted) == SelectSeq(formatted, LAMBDA c : c # "-")

\* the decimal digits of n, as sprintf("%d") prints them
RECURSIVE Decimal(_)
Decimal(n) == IF n < 10 THEN <<n>> ELSE Append(Decimal(n \div 10), n % 10)

\* the number sscanf("%d") reads from decimal digits
RECURSIVE ReadDecimal(_)
ReadDecimal(digits) ==
    IF digits = <<>> THEN 0
    ELSE (10 * ReadDecimal(SubSeq(digits, 1, Len(digits) - 1))) + digits[Len(digits)]

\* ParseIPAddress: the four octets of a dotted address, <<>> if one is
\* above 255
ParseIPAddress(ipStr) ==
    LET parts == [k \in 1..4 |-> ReadDecimal(ipStr[k])]
    IN  IF \E k \in 1..4 : parts[k] > 255 THEN <<>> ELSE parts

\* FormatIPAddress
FormatIPAddress(ipBytes) == [k \in 1..4 |-> Decimal(ipBytes[k])]

\* the exclusive or of the bytes of data
RECURSIVE XorAll(_)
XorAll(data) == IF data = <<>> THEN 0 ELSE Xor(Head(data), XorAll(Tail(data)))

\* Crypto_EncodeServerID
Crypto_EncodeServerID(ipAddress, port) ==
    LET ip == ParseIPAddress(ipAddress)
        six == ip \o <<(port \div 256) % 256, port % 256>>
        rawData == six \o <<XorAll(six), 42>>
        rawId == CString(EncodeBase32(Crypto_Encrypt(rawData)))
    IN  IF ip = <<>> THEN [rc |-> CRYPTO_ERR_INVALID, serverId |-> <<>>]
        ELSE [rc |-> CRYPTO_SUCCESS, serverId |-> FormatServerID(rawId)]

\* Crypto_DecodeServerID
Crypto_DecodeServerID(serverId) ==
    LET decoded == DecodeBase32(UnformatServerID(serverId), 8)
        decodedLen == IF decoded = <<-1>> THEN -1 ELSE Len(decoded)
        encryptedData == [k \in 1..8 |-> IF k <= decodedLen THEN decoded[k] ELSE 0]
        decryptedData == Crypto_Decrypt(encryptedData)
    IN  IF decodedLen < 6
        THEN [rc |-> CRYPTO_ERR_INVALID, ipAddress |-> <<>>, port |-> 0]
        ELSE IF XorAll(SubSeq(decryptedData, 1, 6)) # decryptedData[7]
        THEN [rc |-> CRYPTO_ERR_INVALID, ipAddress |-> <<>>, port |-> 0]
        ELSE [rc |-> CRYPTO_SUCCESS,
              ipAddress |-> FormatIPAddress(SubSeq(decryptedData, 1, 4)),
              port |-> (decryptedData[5] * 256) + decryptedData[6]]

\* the addresses and ports a relay is set up with
SampleOctets == {0, 10, 192, 255}
SamplePorts == {1, 80, 5000, 65535}
Endpoints ==
    [ipAddress : {[k \in 1..4 |-> Decimal(ip[k])] : ip \in [1..4 -> SampleOctets]},
     port : SamplePorts]

(* ------------------------------ screen RLE ----------------------------- *)
\* CompressRLE: the length of the run of currentByte that starts at
\* pSrc[srcPos] (srcPos counts from 0): runLength grows while
\* srcPos + runLength < srcSize && runLength < 255 && the byte is the same
RunLength(pSrc, srcPos) ==
    LET left == Len(pSrc) - srcPos
        longest == IF left < 255 THEN left ELSE 255
        ends == {n \in 1..(longest - 1) : pSrc[srcPos + n + 1] # pSrc[srcPos + 1]}
    IN  IF ends = {} THEN longest
        ELSE CHOOSE n \in ends : \A m \in ends : n <= m

\* a compressor that escapes runs only
RunsOnly(runLength, currentByte) == runLength >= 3

\* CompressRLE: a run is written as 0xFF, runLength, currentByte
Escaped(runLength, currentByte) == runLength >= 3 \/ currentByte = 255

\* dstPos < dstMaxSize - 3 on DWORDs: dstMaxSize - 3 wraps below 3
BelowLimit(dstPos, dstMaxSize) ==
    IF dstMaxSize < 3 THEN TRUE ELSE dstPos < dstMaxSize - 3

\* the literal loop: while (runLength-- > 0 && dstPos < dstMaxSize)
CopyCount(runLength, dstPos, dstMaxSize) ==
    IF dstMaxSize - dstPos < runLength
    THEN (IF dstMaxSize > dstPos THEN dstMaxSize - dstPos ELSE 0)
    ELSE runLength

\* CompressRLE from srcPos on; pDst is what has been written
RECURSIVE CompressFrom(_, _, _, _)
CompressFrom(pSrc, srcPos, pDst, dstMaxSize) ==
    IF ~(srcPos < Len(pSrc) /\ BelowLimit(Len(pDst), dstMaxSize)) THEN pDst
    ELSE LET currentByte == pSrc[srcPos + 1]
             runLength == RunLength(pSrc, srcPos)
             copied == CopyCount(runLength, Len(pDst), dstMaxSize)
         IN  IF Escaped(runLength, currentByte)
             THEN IF Len(pDst) + 3 > dstMaxSize THEN pDst
                  ELSE CompressFrom(pSrc, srcPos + runLength,
                                    pDst \o <<255, runLength, currentByte>>,
                                    dstMaxSize)
             ELSE CompressFrom(pSrc, srcPos + copied,
                               pDst \o SubSeq(pSrc, srcPos + 1, srcPos + copied),
                               dstMaxSize)

CompressRLE(pSrc, dstMaxSize) == CompressFrom(pSrc, 0, <<>>, dstMaxSize)

\* DecompressRLE from srcPos on
RECURSIVE DecompressFrom(_, _, _, _)
DecompressFrom(pSrc, srcPos, pDst, dstMaxSize) ==
    IF ~(srcPos < Len(pSrc) /\ Len(pDst) < dstMaxSize) THEN pDst
    ELSE IF pSrc[srcPos + 1] = 255 /\ srcPos + 2 < Len(pSrc)
    THEN LET count == pSrc[srcPos + 2]
             value == pSrc[srcPos + 3]
             room == dstMaxSize - Len(pDst)
             n == IF count < room THEN count ELSE room
         IN  DecompressFrom(pSrc, srcPos + 3, pDst \o [k \in 1..n |-> value],
                            dstMaxSize)
    ELSE DecompressFrom(pSrc, srcPos + 1, Append(pDst, pSrc[srcPos + 1]), dstMaxSize)

DecompressRLE(pSrc, dstMaxSize) == DecompressFrom(pSrc, 0, <<>>, dstMaxSize)

\* ScreenCapture_Create: compressBufferSize
compressBufferSize == ScreenBytes + (ScreenBytes \div 8) + 256

\* InitViewer: g_decompressBufferSize is width * height * 4 for a screen of
\* width * height * 3 pixel bytes
g_decompressBufferSize == (ScreenBytes \div 3) * 4

\* the pixel bytes of a rectangle: every short sequence of the bytes 0, 7
\* and 0xFF, and runs of 0 and of 0xFF around the longest run one triple
\* can hold
RleBytes == {0, 7, 255}
Rectangles ==
    UNION {[1..n -> RleBytes] : n \in 0..MaxRect}
      \cup {[k \in 1..n |-> b] : n \in 254..258, b \in {0, 255}}
      \cup {[k \in 1..256 |-> IF k = 1 THEN 7 ELSE 255]}

(* ---------------------------- relay process ---------------------------- *)
Procs == 1..NumProcs
Inodes == 1..MaxInodes

\* a relay process that is not running: g_lockFd = -1, g_bRunning = 1
InitProc ==
    [pc |-> "exited", exitCode |-> 0, g_lockFd |-> 0, g_bRunning |-> TRUE,
     started |-> FALSE, accepting |-> FALSE, listenSocket |-> FALSE,
     workers |-> 0, shouldStop |-> FALSE, waited |-> 0]

\* no relay runs and LOCK_FILE_PATH names no file; flock[i] is the process
\* whose descriptor holds the exclusive lock on file i, or 0
InitInst ==
    [proc |-> [p \in Procs |-> InitProc],
     path |-> 0,
     created |-> 0,
     flock |-> [i \in Inodes |-> 0]]

\* the process ends: the kernel closes its descriptors, which drops a lock
\* its lock descriptor held
ExitProcess(st, p, code) ==
    [st EXCEPT !.proc[p] = [InitProc EXCEPT !.exitCode = code],
               !.flock = [i \in Inodes |-> IF st.flock[i] = p THEN 0 ELSE st.flock[i]]]

\* AcquireLock: open(LOCK_FILE_PATH, O_CREAT | O_RDWR)
OpenLockFile(st, p) ==
    LET file == IF st.path = 0 THEN st.created + 1 ELSE st.path
    IN  [st EXCEPT !.proc[p] = [InitProc EXCEPT !.pc = "opened", !.g_lockFd = file],
                   !.path = file,
                   !.created = IF st.path = 0 THEN @ + 1 ELSE @]

\* AcquireLock: flock(g_lockFd, LOCK_EX | LOCK_NB); on failure close and
\* return -1, and main returns 1
TryLock(st, p) ==
    LET file == st.proc[p].g_lockFd
    IN  IF st.flock[file] = 0
        THEN [st EXCEPT !.flock[file] = p, !.proc[p].pc = "locked"]
        ELSE ExitProcess(st, p, 1)

\* main: Relay_Create and Relay_Start; when either fails main returns 1
\* without ReleaseLock
StartServer(st, p, ok) ==
    IF ok
    THEN [st EXCEPT !.proc[p].pc = "running", !.proc[p].started = TRUE,
                    !.proc[p].listenSocket = TRUE, !.proc[p].accepting = TRUE]
    ELSE ExitProcess(st, p, 1)

\* SignalHandler: g_bRunning = 0
SignalHandler(s) == [s EXCEPT !.g_bRunning = FALSE]

\* Relay_Stop: bRunning = 0 and pthread_join(acceptThread)
StopAccepting(s) == [s EXCEPT !.accepting = FALSE, !.pc = "stop"]

\* Relay_Stop: shouldStop = 1 and shutdown() for every connection
SignalWorkers(s) == [s EXCEPT !.shouldStop = TRUE, !.pc = "destroy"]

\* a shutdown that does not wait for the workers
WaitNothing(s) == [s EXCEPT !.pc = "drained"]

\* Relay_Destroy: usleep(500000)
WaitForWorkers(s) == [s EXCEPT !.waited = DRAIN_WAIT_MS, !.pc = "drained"]

\* Relay_Destroy: RemoveConnection for what is left, close(listenSocket)
ReleaseSockets(s) == [s EXCEPT !.workers = 0, !.listenSocket = FALSE, !.pc = "release"]

\* ReleaseLock: flock(g_lockFd, LOCK_UN)
Unlock(st, p) ==
    [st EXCEPT !.flock[st.proc[p].g_lockFd] = IF @ = p THEN 0 ELSE @,
               !.proc[p].pc = "unlocked"]

\* ReleaseLock: close(g_lockFd); g_lockFd = -1
CloseLockFile(st, p) ==
    [st EXCEPT !.proc[p].g_lockFd = 0, !.proc[p].pc = "closed"]

\* ReleaseLock: unlink(LOCK_FILE_PATH), then main returns 0
UnlinkLockFile(st, p) == [ExitProcess(st, p, 0) EXCEPT !.path = 0]

\* process p holds the exclusive lock taken by AcquireLock
HoldsLock(st, p) ==
    /\ st.proc[p].g_lockFd # 0
    /\ st.flock[st.proc[p].g_lockFd] = p

(* ---------------------------- file transfer ---------------------------- *)
\* characters of a file name: a letter, a dot and the two path separators
NameChars == {"a", ".", "/", "\\"}
FileNames == UNION {[1..n -> NameChars] : n \in 0..MaxName}

\* what the disk holds under a name: NoFile, or the number of chunks written
NoFile == -1

\* g_ftContext after FileTransfer_Init, an empty folder, the progress
\* dialog hidden, nothing posted to the window and nothing sent
InitTransfer ==
    [state |-> FT_STATE_IDLE, hFile |-> FALSE, filePath |-> <<>>,
     bCancelRequested |-> FALSE, bCancelled |-> FALSE, bVisible |-> FALSE,
     disk |-> [n \in FileNames |-> NoFile],
     posted |-> <<>>, lastError |-> "", result |-> FT_SUCCESS,
     hThread |-> FALSE, wire |-> <<>>, log |-> <<>>]

\* a function of the file-transfer module returns code, leaving f
FtReturn(f, code, error) == [f EXCEPT !.result = code, !.lastError = error]

\* PostMessage(hNotifyWnd, msg, code, 0)
PostMessage(f, msg, code) ==
    [f EXCEPT !.posted = Append(@, [msg |-> msg, code |-> code])]

\* Progress_Show64 zeroes g_progState and shows the dialog
Progress_Show64(f) == [f EXCEPT !.bCancelled = FALSE, !.bVisible = TRUE]
Progress_Hide(f) == [f EXCEPT !.bVisible = FALSE]
Progress_IsCancelled(f) == f.bCancelled

FileTransfer_IsBusy(f) == f.state # FT_STATE_IDLE

\* DeleteFileA(path)
DeleteFileA(f, path) == [f EXCEPT !.disk[path] = NoFile]

\* FileTransfer_Cancel
FileTransfer_Cancel(f) ==
    LET closed == [f EXCEPT !.bCancelRequested = TRUE, !.hThread = FALSE,
                            !.hFile = FALSE]
        deleted == IF f.state = FT_STATE_RECEIVING /\ Len(f.filePath) > 0
                   THEN DeleteFileA(closed, f.filePath)
                   ELSE closed
    IN  [Progress_Hide(deleted) EXCEPT !.state = FT_STATE_IDLE,
                                       !.filePath = <<>>,
                                       !.bCancelRequested = FALSE]

\* a file name test that lets every name through
AnyFilename(name) == FALSE

\* FileTransfer_StartReceive: the file name test
\* fileName[0] == '\0' || strchr('\\') || strchr('/') || strstr("..")
InvalidFilename(name) ==
    \/ Len(name) = 0
    \/ \E i \in 1..Len(name) : name[i] = "\\"
    \/ \E i \in 1..Len(name) : name[i] = "/"
    \/ \E i \in 1..(Len(name) - 1) : name[i] = "." /\ name[i + 1] = "."

\* the MSG_FILE_START payloads: one too short to hold RD2K_FILE_HEADER, and
\* for every file name a header whose file can be created ("ok"), whose
\* size is above FT_MAX_FILE_SIZE ("toolarge"), or whose file CreateFileA
\* can create in neither folder ("nocreate")
FileHeaders ==
    {[fileName |-> <<>>, kind |-> "short"]}
      \cup [fileName : FileNames, kind : {"ok", "toolarge", "nocreate"}]

\* FileTransfer_StartReceive
FileTransfer_StartReceive(f, hdr) ==
    IF hdr.kind = "short" THEN FtReturn(f, FT_ERR_NETWORK, "Invalid file header")
    ELSE IF FileTransfer_IsBusy(f)
    THEN FtReturn(f, FT_ERR_BUSY, "Transfer already in progress")
    ELSE IF InvalidFilename(hdr.fileName)
    THEN FtReturn(f, FT_ERR_NETWORK, "Invalid filename")
    ELSE IF hdr.kind = "toolarge"
    THEN FtReturn(f, FT_ERR_FILE_TOO_LARGE, "File too large (max 100GB)")
    ELSE IF hdr.kind = "nocreate"
    THEN FtReturn([f EXCEPT !.filePath = hdr.fileName],
                  FT_ERR_CREATE_FILE, "Cannot create file")
    ELSE FtReturn(Progress_Show64(
                    [f EXCEPT !.filePath = hdr.fileName,
                              !.hFile = TRUE,
                              !.disk[hdr.fileName] = 0,
                              !.state = FT_STATE_RECEIVING,
                              !.bCancelRequested = FALSE]),
                  FT_SUCCESS, "")

\* the MSG_FILE_DATA payloads: a good chunk, one too short for
\* RD2K_FILE_CHUNK, one whose chunkSize is wrong, one WriteFile fails on
FileChunks == {"ok", "short", "badsize", "writefail"}

\* FileTransfer_ReceiveData
FileTransfer_ReceiveData(f, chunk) ==
    IF f.state # FT_STATE_RECEIVING THEN FtReturn(f, FT_ERR_NETWORK, "Not receiving")
    ELSE IF chunk = "short" THEN FtReturn(f, FT_ERR_NETWORK, "Invalid chunk data")
    ELSE IF ~f.hFile THEN FtReturn(f, FT_ERR_WRITE, "File not open")
    ELSE IF f.bCancelRequested \/ Progress_IsCancelled(f)
    THEN FtReturn([f EXCEPT !.bCancelRequested = TRUE],
                  FT_ERR_CANCELLED, "Transfer cancelled by user")
    ELSE IF chunk = "badsize" THEN FtReturn(f, FT_ERR_NETWORK, "Invalid chunk size")
    ELSE IF chunk = "writefail" THEN FtReturn(f, FT_ERR_WRITE, "Write error")
    ELSE FtReturn([f EXCEPT !.disk[f.filePath] = @ + 1], FT_SUCCESS, f.lastError)

\* FileTransfer_EndReceive
FileTransfer_EndReceive(f) ==
    IF f.state # FT_STATE_RECEIVING THEN [f EXCEPT !.result = FT_ERR_NETWORK]
    ELSE FtReturn(
           [PostMessage(Progress_Hide(f), "WM_FT_COMPLETE", FT_SUCCESS)
              EXCEPT !.hFile = FALSE,
                     !.state = FT_STATE_IDLE,
                     !.bCancelRequested = FALSE,
                     !.filePath = <<>>],
           FT_SUCCESS, "")

\* the results of the Network_SendPacket calls of one transfer, in order:
\* MSG_FILE_START, every attempt at every chunk, MSG_FILE_END
SendOutcomes(maxRetries) ==
    [1..(2 + (SendFileChunks * maxRetries)) -> BOOLEAN]

\* the retry loop around Network_SendPacket(MSG_FILE_DATA):
\* while (retryCount < maxRetries) { send; if ok break; retryCount++;
\*   if (retryCount < maxRetries) Sleep(100 * retryCount); }
RECURSIVE SendChunkFrom(_, _, _)
SendChunkFrom(outcomes, retryCount, maxRetries) ==
    IF retryCount >= maxRetries
    THEN [ok |-> FALSE, log |-> <<>>, rest |-> outcomes]
    ELSE IF Head(outcomes)
    THEN [ok |-> TRUE, log |-> <<Attempted>>, rest |-> Tail(outcomes)]
    ELSE LET later == SendChunkFrom(Tail(outcomes), retryCount + 1, maxRetries)
         IN  [ok |-> later.ok,
              log |-> <<Attempted>>
                        \o (IF retryCount + 1 < maxRetries
                            THEN <<Slept(RETRY_DELAY_MS * (retryCount + 1))>>
                            ELSE <<>>)
                        \o later.log,
              rest |-> later.rest]

\* the while (totalSent < fileSize) loop from chunk chunkIndex on; the file
\* can be read; stop is "", "cancelled" or "network"
RECURSIVE SendChunksFrom(_, _, _, _)
SendChunksFrom(outcomes, chunkIndex, maxRetries, cancelled) ==
    IF chunkIndex >= SendFileChunks
    THEN [stop |-> "", wire |-> <<>>, log |-> <<>>, rest |-> outcomes]
    ELSE IF cancelled
    THEN [stop |-> "cancelled", wire |-> <<>>, log |-> <<>>, rest |-> outcomes]
    ELSE LET chunk == SendChunkFrom(outcomes, 0, maxRetries)
             later == SendChunksFrom(chunk.rest, chunkIndex + 1, maxRetries, cancelled)
         IN  IF ~chunk.ok
             THEN [stop |-> "network", wire |-> <<>>, log |-> chunk.log,
                   rest |-> chunk.rest]
             ELSE [stop |-> later.stop,
                   wire |-> <<"MSG_FILE_DATA">> \o later.wire,
                   log |-> chunk.log \o later.log,
                   rest |-> later.rest]

\* the thread ends with WM_FT_ERROR
ThreadError(f, code, error, wire, log) ==
    [FtReturn(PostMessage(f, "WM_FT_ERROR", code), code, error)
        EXCEPT !.wire = wire, !.log = log]

\* SendFileThreadProc, for a file that exists, is not empty and can be read
SendFileThreadProc(f, outcomes) ==
    IF ~Head(outcomes)
    THEN ThreadError(f, FT_ERR_NETWORK, "Network error sending header",
                     <<>>, <<Attempted>>)
    ELSE LET cancelled == f.bCancelRequested \/ Progress_IsCancelled(f)
             sent == SendChunksFrom(Tail(outcomes), 0, THREAD_MAX_RETRIES, cancelled)
             wire == <<"MSG_FILE_START">> \o sent.wire
             log == <<Attempted>> \o sent.log
         IN  IF sent.stop = "cancelled"
             THEN ThreadError([f EXCEPT !.bCancelRequested = TRUE], FT_ERR_CANCELLED,
                              "Transfer cancelled by user", wire, log)
             ELSE IF sent.stop = "network"
             THEN ThreadError(f, FT_ERR_NETWORK, "Network error sending data",
                              wire, log)
             ELSE IF ~Head(sent.rest)
             THEN ThreadError(f, FT_ERR_NETWORK, "Network error sending end marker",
                              wire, log \o <<Slept(END_DELAY_MS), Attempted>>)
             ELSE [FtReturn(PostMessage(f, "WM_FT_COMPLETE", FT_SUCCESS),
                            FT_SUCCESS, "")
                     EXCEPT !.wire = wire \o <<"MSG_FILE_END">>,
                            !.log = log \o <<Slept(END_DELAY_MS), Attempted>>]

\* FileTransfer_SendFile, for a file that exists and is not empty; threadOk
\* is whether CreateThread succeeds
FileTransfer_SendFile(f, threadOk) ==
    IF FileTransfer_IsBusy(f)
    THEN FtReturn(f, FT_ERR_BUSY, "Transfer already in progress")
    ELSE LET shown == Progress_Show64([f EXCEPT !.state = FT_STATE_SENDING,
                                                !.bCancelRequested = FALSE,
                                                !.filePath = <<"a">>])
         IN  IF threadOk
             THEN [shown EXCEPT !.hThread = TRUE, !.result = FT_SUCCESS]
             ELSE FtReturn(Progress_Hide([shown EXCEPT !.state = FT_STATE_IDLE]),
                           FT_ERR_MEMORY, "Failed to create worker thread")

\* FileTransfer_SendFileSync ends with an error
SyncError(f, code, error, wire, log) ==
    [FtReturn(Progress_Hide(f), code, error)
        EXCEPT !.state = FT_STATE_IDLE, !.wire = wire, !.log = log]

\* FileTransfer_SendFileSync, for a file that exists, is not empty and can
\* be read
FileTransfer_SendFileSync(f, outcomes) ==
    IF FileTransfer_IsBusy(f)
    THEN FtReturn(f, FT_ERR_BUSY, "Transfer already in progress")
    ELSE LET shown == Progress_Show64([f EXCEPT !.state = FT_STATE_SENDING,
                                                !.filePath = <<"a">>])
         IN  IF ~Head(outcomes)
             THEN SyncError(shown, FT_ERR_NETWORK, "Network error sending header",
                            <<>>, <<Attempted>>)
             ELSE LET sent == SendChunksFrom(Tail(outcomes), 0, SYNC_MAX_RETRIES,
                                             Progress_IsCancelled(shown))
                      wire == <<"MSG_FILE_START">> \o sent.wire
                      log == <<Attempted>> \o sent.log
                  IN  IF sent.stop = "cancelled"
                      THEN SyncError(shown, FT_ERR_CANCELLED, "Transfer cancelled",
                                     wire, log)
                      ELSE IF sent.stop = "network"
                      THEN SyncError(shown, FT_ERR_NETWORK,
                                     "Network error sending data", wire, log)
                      ELSE IF ~Head(sent.rest)
                      THEN SyncError(shown, FT_ERR_NETWORK,
                                     "Network error sending end marker", wire,
                                     log \o <<Slept(END_DELAY_MS), Attempted>>)
                      ELSE SyncError(shown, FT_SUCCESS, "",
                                     wire \o <<"MSG_FILE_END">>,
                                     log \o <<Slept(END_DELAY_MS), Attempted>>)

\* MainWndProc, WM_FT_COMPLETE and WM_FT_ERROR: Progress_Hide and
\* FileTransfer_Cancel
OnFtMessage(f) == [FileTransfer_Cancel(Progress_Hide(f)) EXCEPT !.posted = Tail(@)]

\* ProgressWndProc, IDC_BTN_CANCEL and WM_CLOSE
OnCancelButton(f) == [f EXCEPT !.bCancelled = TRUE]


(* ------------------------------ Init ----------------------------------- *)
\* everything but the pure call: no connection, no session, no transfer
(* --------------- worker threads (src/linux/relay.c) -------------------- *)
\* One ClientWorkerThread per connection, named by the address of its
\* RELAY_CONNECTION.  pc is the statement the thread is at; clientId,
\* pPartner and status are the locals reg.clientId, pPartner and
\* response.status of ProcessRelayMessage; to is the socket of the
\* SendRelayPacket call the thread is inside of; frames counts the frames
\* the thread has received.
WorkerIdle ==
    [pc |-> "none", clientId |-> 0, pPartner |-> NULL, status |-> 0,
     to |-> INVALID_SOCKET, frames |-> 0]

InitWorkers == [a \in Addr |-> WorkerIdle]

(* ------------- viewer side (src/client/remotedesk2k.c) ----------------- *)
\* The client program after ConnectToRelayServer succeeded: g_relaySocket is
\* registered with the relay and TIMER_RELAY_CHECK is running.  main and
\* thread are where the GUI thread and ConnectThreadProc are; wire is what
\* has been handed to send() on g_relaySocket, in order, and what send()
\* calls have returned.
InitLink ==
    [g_bConnecting |-> FALSE, g_bClientConnected2 |-> FALSE,
     g_csRelay |-> "free", main |-> "idle", thread |-> "none",
     result |-> RD2K_SUCCESS, wire |-> <<>>]

Quiet ==
    /\ conn = [a \in Addr |-> FreedConn]
    /\ connections = [i \in Slots |-> NULL]
    /\ app = InitApp
    /\ inputQueue = InitInputQueue
    /\ inst = InitInst
    /\ ft = InitTransfer
    /\ workers = InitWorkers
    /\ link = InitLink

Init ==
    /\ Quiet
    /\ call = NoCall

\* AcceptThread: accept, AddConnection, pthread_create
Accept ==
    /\ ActiveConnections(connections) < MaxSlots
    /\ \E a \in Addr :
        /\ ~conn[a].alloc
        /\ conn' = [conn EXCEPT ![a] = NewConn(a)]
        /\ connections' = [connections EXCEPT ![FirstFreeSlot(connections)] = a]
        /\ UNCHANGED <<app, inputQueue, call, inst, ft, workers, link>>

(* --------------------------- ClientWorkerThread ------------------------ *)
\* while (pConn->state != RELAY_STATE_DISCONNECTED && ... && !pConn->shouldStop)
LoopCondition(c) ==
    c.state # RELAY_STATE_DISCONNECTED /\ ~c.shouldStop

\* one iteration of the worker's loop from the return of RecvExact on: the
\* handler ran (h), and the worker either re-enters RecvExact (the handler
\* returned 0 and the loop condition holds) or leaves the loop and runs the
\* cleanup.  Yields the heap, the table, the frames written during the
\* iteration in order, and whether the worker exited.
Iteration(a, h) ==
    IF h.result = 0 /\ LoopCondition(h.conn[a])
    THEN [conn |-> h.conn, connections |-> h.connections, wire |-> h.wire,
          exits |-> FALSE]
    ELSE LET c == WorkerCleanup(h.conn, h.connections, a)
         IN  [conn |-> c.conn, connections |-> c.connections,
              wire |-> h.wire \o c.wire, exits |-> TRUE]

\* RecvExact returned 0: nothing arrived within the poll, or the peer closed
\* its end; the worker leaves the loop once the connection is inactive
InactivityExpired(c) == c.idle > CLIENT_INACTIVITY_TIMEOUT_MS

\* the iteration for each thing RecvExact can deliver to the worker at a
OnRegister(a, clientId) ==
    Iteration(a, ProcessRegister(conn, connections, a, clientId))
OnConnectRequest(a, partnerId) ==
    Iteration(a, ProcessConnectRequest(conn, connections, a, partnerId))
OnData(a, flags, data) ==
    Iteration(a, ProcessData(conn, connections, a, flags, data))
OnDisconnect(a) ==
    Iteration(a, ProcessDisconnect(conn, connections, a))
OnPing(a) ==
    Iteration(a, ProcessPing(conn, connections, a))
OnUnknown(a) ==
    Iteration(a, ProcessUnknown(conn, connections, a))
OnNothing(a) ==
    Iteration(a, Handled(conn, connections, <<>>,
                         IF InactivityExpired(conn[a]) THEN -1 ELSE 0))
OnError(a) ==
    Iteration(a, Handled(conn, connections, <<>>, -1))

\* the worker is inside RecvExact on an open socket
Receiving(a) ==
    /\ conn[a].alloc
    /\ conn[a].socket # INVALID_SOCKET

Apply(o) ==
    /\ conn' = o.conn
    /\ connections' = o.connections
    /\ UNCHANGED <<app, inputQueue, call, inst, ft, workers, link>>

RecvRegister(a, clientId) == Receiving(a) /\ Apply(OnRegister(a, clientId))

RecvConnectRequest(a, partnerId) == Receiving(a) /\ Apply(OnConnectRequest(a, partnerId))

\* what the step does to the relay does not depend on the payload bytes
RecvData(a) ==
    /\ Receiving(a)
    /\ \E flags \in Flags : Apply(OnData(a, flags, ArrivingData))

RecvDisconnect(a) == Receiving(a) /\ Apply(OnDisconnect(a))

RecvPing(a) == Receiving(a) /\ Apply(OnPing(a))

\* an unknown message type
RecvUnknown(a) == Receiving(a) /\ Apply(OnUnknown(a))

RecvNothing(a) == Receiving(a) /\ Apply(OnNothing(a))

\* RecvExact returned -1: select or recv failed (reset by the peer, or the
\* descriptor was closed by RemoveStaleConnections), or a frame the worker
\* rejects before dispatch (short header, oversized dataLength, short payload)
RecvError(a) == conn[a].alloc /\ Apply(OnError(a))

\* time passes
Tick ==
    /\ \E a \in Addr : conn[a].alloc /\ conn[a].idle < IdleCap
    /\ conn' = [a \in Addr |->
                  IF conn[a].alloc
                  THEN [conn[a] EXCEPT !.idle = IF @ + TickMs > IdleCap
                                                THEN IdleCap ELSE @ + TickMs]
                  ELSE conn[a]]
    /\ UNCHANGED <<connections, app, inputQueue, call, inst, ft, workers, link>>

\* one return of RecvExact in the worker of the connection at address a
Worker(a) ==
    \/ \E id \in Ids : RecvRegister(a, id)
    \/ \E id \in Ids : RecvConnectRequest(a, id)
    \/ RecvData(a)
    \/ RecvDisconnect(a)
    \/ RecvPing(a)
    \/ RecvUnknown(a)
    \/ RecvNothing(a)
    \/ RecvError(a)

Next ==
    \/ Accept
    \/ \E a \in Addr : Worker(a)

\* the relay while every connection stays within its inactivity period
Spec == Init /\ [][Next]_vars

\* the relay with the passage of time
AcceptTimed ==
    /\ Cardinality({a \in Addr : conn[a].alloc}) < MaxTimedSlots
    /\ Accept

NextTimed ==
    \/ AcceptTimed
    \/ Tick
    \/ \E a \in Addr : Worker(a)

SpecTimed == Init /\ [][NextTimed]_vars
(* ===================== the Windows build of the relay ================== *)
\* src/relay/relay.c.  Its RELAY_CONNECTION has a manual-reset event
\* hDisconnectEvent where the Linux one has the flag shouldStop; the field
\* shouldStop of the model holds "the event is signalled".  The worker does
\* not free its RELAY_CONNECTION, so the object outlives its worker; the
\* field running tells whether the worker thread has returned.
WinProcessRegister(cs, tbl, a, clientId) == ProcessRegister(cs, tbl, a, clientId)

\* the pairing branch: both pointers and both states, nothing else
WinPairConnections(cs, a, pPartner) ==
    LET cs1 == [cs EXCEPT ![a].pPartner = pPartner]
        cs2 == [cs1 EXCEPT ![pPartner].pPartner = a]
        cs3 == [cs2 EXCEPT ![a].state = RELAY_STATE_PAIRED]
    IN  [cs3 EXCEPT ![pPartner].state = RELAY_STATE_PAIRED]

WinProcessConnectRequest(cs, tbl, a, partnerId) ==
    LET pPartner == FindConnectionById(cs, tbl, partnerId)
        status == ConnectStatus(cs, pPartner)
        cs1 == IF status = RD2K_SUCCESS THEN WinPairConnections(cs, a, pPartner)
               ELSE cs
    IN  Handled([cs1 EXCEPT ![a].idle = 0], tbl,
                SendRelayPacket(cs[a].socket, "CONNECT_RESPONSE", 8, status, 0),
                0)

WinProcessData(cs, tbl, a, flags, data) ==
    LET p == cs[a].pPartner
    IN  Handled([cs EXCEPT ![a].idle = 0], tbl,
                IF PartnerReachable(cs, p)
                THEN SendData(cs[p].socket, Decoded(flags, data))
                ELSE <<>>,
                0)

WinProcessDisconnect(cs, tbl, a) ==
    LET p == cs[a].pPartner
        cs1 == [cs EXCEPT ![a].state = RELAY_STATE_DISCONNECTED]
    IN  Handled(IF p # NULL
                THEN [[cs1 EXCEPT ![p].state = RELAY_STATE_DISCONNECTED]
                           EXCEPT ![p].pPartner = NULL]
                ELSE cs1,
                tbl, <<>>, 1)

\* the cleanup at the end of the Windows ClientWorkerThread
WinWorkerCleanup(cs, tbl, a) ==
    LET p == cs[a].pPartner
        notify == PartnerReachable(cs, p)
        cs1 == IF notify
               THEN [cs EXCEPT ![p].shouldStop = TRUE,
                               ![p].pPartner = NULL,
                               ![p].state = RELAY_STATE_REGISTERED]
               ELSE cs
    IN  [conn |-> [cs1 EXCEPT ![a].state = RELAY_STATE_DISCONNECTED,
                              ![a].pPartner = NULL,
                              ![a].socket = INVALID_SOCKET,
                              ![a].shouldStop = TRUE,
                              ![a].running = FALSE],
         connections |-> [i \in Slots |-> IF tbl[i] = a THEN NULL ELSE tbl[i]],
         wire |-> IF notify
                  THEN SendRelayPacket(cs[p].socket, "PARTNER_DISCONNECTED", 8,
                                       RELAY_DISCONNECT_PARTNER_LEFT, cs[a].clientId)
                  ELSE <<>>]

\* one iteration of the Windows worker's loop from the return of RecvExact
\* on; the loop tests the state and then the event before it calls RecvExact
\* again
WinIteration(a, h) ==
    IF h.result = 0 /\ LoopCondition(h.conn[a])
    THEN [conn |-> h.conn, connections |-> h.connections, wire |-> h.wire,
          exits |-> FALSE]
    ELSE LET c == WinWorkerCleanup(h.conn, h.connections, a)
         IN  [conn |-> c.conn, connections |-> c.connections,
              wire |-> h.wire \o c.wire, exits |-> TRUE]

WinOnRegister(a, clientId) ==
    WinIteration(a, WinProcessRegister(conn, connections, a, clientId))
WinOnConnectRequest(a, partnerId) ==
    WinIteration(a, WinProcessConnectRequest(conn, connections, a, partnerId))
WinOnData(a, flags, data) ==
    WinIteration(a, WinProcessData(conn, connections, a, flags, data))
WinOnDisconnect(a) ==
    WinIteration(a, WinProcessDisconnect(conn, connections, a))
WinOnPing(a) ==
    WinIteration(a, ProcessPing(conn, connections, a))
WinOnUnknown(a) ==
    WinIteration(a, ProcessUnknown(conn, connections, a))
\* RecvExact returned 0: the worker loops, whatever the idle time
WinOnNothing(a) ==
    WinIteration(a, Handled(conn, connections, <<>>, 0))
WinOnError(a) ==
    WinIteration(a, Handled(conn, connections, <<>>, -1))

WinReceiving(a) ==
    /\ conn[a].running
    /\ conn[a].socket # INVALID_SOCKET

WinAccept == Accept

WinRecvRegister(a, clientId) == WinReceiving(a) /\ Apply(WinOnRegister(a, clientId))

WinRecvConnectRequest(a, partnerId) ==
    WinReceiving(a) /\ Apply(WinOnConnectRequest(a, partnerId))

WinRecvData(a) ==
    /\ WinReceiving(a)
    /\ \E flags \in Flags : Apply(WinOnData(a, flags, ArrivingData))

WinRecvDisconnect(a) == WinReceiving(a) /\ Apply(WinOnDisconnect(a))

WinRecvPing(a) == WinReceiving(a) /\ Apply(WinOnPing(a))

WinRecvUnknown(a) == WinReceiving(a) /\ Apply(WinOnUnknown(a))

WinRecvNothing(a) == WinReceiving(a) /\ Apply(WinOnNothing(a))

WinRecvError(a) == conn[a].running /\ Apply(WinOnError(a))

WinWorker(a) ==
    \/ \E id \in Ids : WinRecvRegister(a, id)
    \/ \E id \in Ids : WinRecvConnectRequest(a, id)
    \/ WinRecvData(a)
    \/ WinRecvDisconnect(a)
    \/ WinRecvPing(a)
    \/ WinRecvUnknown(a)
    \/ WinRecvNothing(a)
    \/ WinRecvError(a)

NextWin ==
    \/ WinAccept
    \/ \E a \in Addr : WinWorker(a)

SpecWin == Init /\ [][NextWin]_vars

\* time passes for the Windows relay; only the connections whose worker runs
\* have their lastActivity read again
WinTick ==
    /\ \E a \in Addr : conn[a].running /\ conn[a].idle < IdleCap
    /\ conn' = [a \in Addr |->
                  IF conn[a].running
                  THEN [conn[a] EXCEPT !.idle = IF @ + TickMs > IdleCap
                                                THEN IdleCap ELSE @ + TickMs]
                  ELSE conn[a]]
    /\ UNCHANGED <<connections, app, inputQueue, call, inst, ft, workers, link>>

\* the Windows relay frees no connection object while it runs: the bound is on
\* the connections accepted while the clock runs
WinAcceptTimed ==
    /\ Cardinality({a \in Addr : conn[a].alloc}) < MaxTimedSlots
    /\ WinAccept

NextWinTimed ==
    \/ WinAcceptTimed
    \/ WinTick
    \/ \E a \in Addr : WinWorker(a)

SpecWinTimed == Init /\ [][NextWinTimed]_vars

(* ------------------------- the host application ------------------------ *)
ApplyHost(n) ==
    /\ app' = n
    /\ UNCHANGED <<conn, connections, inputQueue, call, inst, ft, workers, link>>

\* one TIMER_NETWORK / TIMER_LISTEN_CHECK tick: what ProcessServerNetwork
\* does with what the sockets hold
OnNetworkTimer(relayIn, directIn, result, outcomes) ==
    ProcessServerNetwork(app, relayIn, directIn, result, outcomes)

\* the relay socket has something only while it is open, and only a relay
\* session ends with RD2K_ERR_PARTNER_LEFT or RD2K_ERR_SERVER_LOST
Arrives(relayIn, directIn, result) ==
    /\ (relayIn # NoPacket => app.bConnectedToRelay)
    /\ (result \in {"partner_left", "server_lost"} => app.bRelayMode)

NetworkTimer ==
    \E relayIn \in Packets, directIn \in Packets,
       result \in SessionResults, outcomes \in Outcomes :
        /\ Arrives(relayIn, directIn, result)
        /\ OnNetworkTimer(relayIn, directIn, result, outcomes).app.orphans
               <= MaxOrphans
        /\ ApplyHost(OnNetworkTimer(relayIn, directIn, result, outcomes).app)

OnRelayCheck(alive, outcomes) == RelayCheck(app, alive, outcomes)

RelayCheckTimer ==
    \E alive \in BOOLEAN, outcomes \in Outcomes :
        ApplyHost(OnRelayCheck(alive, outcomes).app)

ConnectButton ==
    \E ok \in BOOLEAN : ApplyHost(ConnectToRelayServer(app, ok))

RefreshButton ==
    \E p \in Passwords : ApplyHost(RefreshPassword(app, p))

NextHost ==
    \/ NetworkTimer
    \/ RelayCheckTimer
    \/ ConnectButton
    \/ RefreshButton

SpecHost == Init /\ [][NextHost]_vars

(* ---------------------------- the input queue -------------------------- *)
\* Input_ProcessMouseEvent / Input_ProcessKeyEvent: the next event arrives
QueueEvent ==
    /\ inputQueue' =
         [QueueInputEvent(inputQueue, inputQueue.nextEvent)
            EXCEPT !.nextEvent = IF @ = MaxStamp THEN 1 ELSE @ + 1]
    /\ UNCHANGED <<conn, connections, app, call, inst, ft, workers, link>>

\* InputThreadProc takes one event off the ring
InputThreadProc ==
    /\ DequeueInputEvent(inputQueue).hasEvent
    /\ inputQueue' = DequeueInputEvent(inputQueue).queue
    /\ UNCHANGED <<conn, connections, app, call, inst, ft, workers, link>>

NextInput ==
    \/ QueueEvent
    \/ InputThreadProc

SpecInput == Init /\ [][NextInput]_vars

(* ---------------------------- packet framing --------------------------- *)
\* a frame is about to arrive on a connected socket
InitFrames ==
    /\ Quiet
    /\ call \in {Calling("Network_RecvPacket", f) : f \in Frames}

\* Network_RecvPacket reads the frame
RecvPacket ==
    /\ call.fn = "Network_RecvPacket"
    /\ ~call.done
    /\ call' = Returned(call, Network_RecvPacket(call.in, MaxDataLength))
    /\ UNCHANGED <<conn, connections, app, inputQueue, inst, ft, workers, link>>

NextFrames == RecvPacket

SpecFrames == InitFrames /\ [][NextFrames]_vars

(* ---------------------------- relay process ---------------------------- *)
\* the state of the relay processes becomes st
ApplyInst(st) ==
    /\ inst' = st
    /\ UNCHANGED <<conn, connections, app, inputQueue, call, ft, workers, link>>

\* process p alone takes the step s -> step(s)
ApplyProc(p, s) == ApplyInst([inst EXCEPT !.proc[p] = s])

\* the relay is started: main calls AcquireLock, which opens the lock file
RelayStarted(p) ==
    /\ inst.proc[p].pc = "exited"
    /\ inst.path = 0 => inst.created < MaxInodes
    /\ ApplyInst(OpenLockFile(inst, p))

AcquireLock(p) ==
    /\ inst.proc[p].pc = "opened"
    /\ ApplyInst(TryLock(inst, p))

RelayCreated(p) ==
    /\ inst.proc[p].pc = "locked"
    /\ \E ok \in BOOLEAN : ApplyInst(StartServer(inst, p, ok))

\* AcceptThread admits a client and starts its worker
ClientAdmitted(p) ==
    /\ inst.proc[p].accepting
    /\ inst.proc[p].workers < MaxWorkers
    /\ ApplyProc(p, [inst.proc[p] EXCEPT !.workers = @ + 1])

\* a worker leaves its loop and closes its socket
WorkerDone(p) ==
    /\ inst.proc[p].workers > 0
    /\ inst.proc[p].pc # "exited"
    /\ ApplyProc(p, [inst.proc[p] EXCEPT !.workers = @ - 1])

\* SIGINT or SIGTERM is delivered
Signalled(p) ==
    /\ inst.proc[p].pc = "running"
    /\ inst.proc[p].g_bRunning
    /\ ApplyProc(p, SignalHandler(inst.proc[p]))

\* main leaves its loop and calls Relay_Destroy, which calls Relay_Stop
RelayStopAccept(p) ==
    /\ inst.proc[p].pc = "running"
    /\ ~inst.proc[p].g_bRunning
    /\ ApplyProc(p, StopAccepting(inst.proc[p]))

RelayStopWorkers(p) ==
    /\ inst.proc[p].pc = "stop"
    /\ ApplyProc(p, SignalWorkers(inst.proc[p]))

RelayDestroyWait(p) ==
    /\ inst.proc[p].pc = "destroy"
    /\ ApplyProc(p, WaitForWorkers(inst.proc[p]))

RelayDestroyClose(p) ==
    /\ inst.proc[p].pc = "drained"
    /\ ApplyProc(p, ReleaseSockets(inst.proc[p]))

ReleaseLockUnlock(p) ==
    /\ inst.proc[p].pc = "release"
    /\ ApplyInst(Unlock(inst, p))

ReleaseLockClose(p) ==
    /\ inst.proc[p].pc = "unlocked"
    /\ ApplyInst(CloseLockFile(inst, p))

ReleaseLockUnlink(p) ==
    /\ inst.proc[p].pc = "closed"
    /\ ApplyInst(UnlinkLockFile(inst, p))

NextProcess ==
    \E p \in Procs :
        \/ RelayStarted(p)
        \/ AcquireLock(p)
        \/ RelayCreated(p)
        \/ ClientAdmitted(p)
        \/ WorkerDone(p)
        \/ Signalled(p)
        \/ RelayStopAccept(p)
        \/ RelayStopWorkers(p)
        \/ RelayDestroyWait(p)
        \/ RelayDestroyClose(p)
        \/ ReleaseLockUnlock(p)
        \/ ReleaseLockClose(p)
        \/ ReleaseLockUnlink(p)

SpecProcess == Init /\ [][NextProcess]_vars

(* ---------------------------- file transfer ---------------------------- *)
\* the file transfer becomes f
ApplyTransfer(f) ==
    /\ ft' = f
    /\ UNCHANGED <<conn, connections, app, inputQueue, call, inst, workers, link>>

\* ReceiveFileStart: MSG_FILE_START arrives
RecvFileStart ==
    \E hdr \in FileHeaders : ApplyTransfer(FileTransfer_StartReceive(ft, hdr))

\* ReceiveFileData: MSG_FILE_DATA arrives
RecvFileData ==
    \E chunk \in FileChunks :
        /\ (ft.state = FT_STATE_RECEIVING /\ chunk = "ok") =>
              ft.disk[ft.filePath] < MaxChunks
        /\ ApplyTransfer(FileTransfer_ReceiveData(ft, chunk))

\* ReceiveFileEnd: MSG_FILE_END arrives
RecvFileEnd ==
    /\ Len(ft.posted) < MaxPosted
    /\ ApplyTransfer(FileTransfer_EndReceive(ft))

\* the user presses Cancel in the progress dialog, or closes it
CancelButton ==
    /\ ft.bVisible
    /\ ApplyTransfer(OnCancelButton(ft))

\* the main window handles a posted WM_FT_COMPLETE or WM_FT_ERROR
FtMessage ==
    /\ Len(ft.posted) > 0
    /\ ApplyTransfer(OnFtMessage(ft))

\* HandlePartnerDisconnect / HandleRelayServerLost: FileTransfer_Cancel
TransferSessionLost == ApplyTransfer(FileTransfer_Cancel(ft))

NextReceive ==
    \/ RecvFileStart
    \/ RecvFileData
    \/ RecvFileEnd
    \/ CancelButton
    \/ FtMessage
    \/ TransferSessionLost

SpecReceive == Init /\ [][NextReceive]_vars

\* the user sends a file: FileTransfer_SendFile starts the worker thread
SendFile ==
    \E threadOk \in BOOLEAN : ApplyTransfer(FileTransfer_SendFile(ft, threadOk))

\* the worker thread runs SendFileThreadProc to its end
SendFileThread ==
    /\ ft.hThread
    /\ Len(ft.posted) < MaxPosted
    /\ \E outcomes \in SendOutcomes(THREAD_MAX_RETRIES) :
          ApplyTransfer([SendFileThreadProc(ft, outcomes) EXCEPT !.hThread = FALSE])

\* a file is sent from the clipboard or by drag and drop
SendFileSync ==
    \E outcomes \in SendOutcomes(SYNC_MAX_RETRIES) :
        ApplyTransfer(FileTransfer_SendFileSync(ft, outcomes))

NextSend ==
    \/ SendFile
    \/ SendFileThread
    \/ SendFileSync
    \/ CancelButton
    \/ FtMessage

SpecSend == Init /\ [][NextSend]_vars

(* ------------------------------ Server ID ------------------------------ *)
\* a relay's address and port are about to be made into a Server ID
InitServerID ==
    /\ Quiet
    /\ call \in {Calling("Crypto_EncodeServerID", e) : e \in Endpoints}

\* the relay shows its Server ID; the user types it into a client
EncodeServerID ==
    /\ call.fn = "Crypto_EncodeServerID"
    /\ call' = [fn |-> "Crypto_DecodeServerID",
                in |-> call.in,
                out |-> Crypto_EncodeServerID(call.in.ipAddress, call.in.port),
                done |-> FALSE]
    /\ UNCHANGED <<conn, connections, app, inputQueue, inst, ft, workers, link>>

\* the client decodes the Server ID it was given
DecodeServerID ==
    /\ call.fn = "Crypto_DecodeServerID"
    /\ ~call.done
    /\ call' = Returned(call, Crypto_DecodeServerID(call.out.serverId))
    /\ UNCHANGED <<conn, connections, app, inputQueue, inst, ft, workers, link>>

NextServerID ==
    \/ EncodeServerID
    \/ DecodeServerID

SpecServerID == InitServerID /\ [][NextServerID]_vars

(* ------------------------------ screen RLE ----------------------------- *)
\* a dirty rectangle of the screen is about to be sent
InitScreen ==
    /\ Quiet
    /\ call \in {Calling("CompressRLE", r) : r \in Rectangles}

\* SendScreenUpdate compresses the rectangle into pCompressBuffer
SendScreenUpdate ==
    /\ call.fn = "CompressRLE"
    /\ call' = [fn |-> "DecompressRLE",
                in |-> call.in,
                out |-> CompressRLE(call.in, compressBufferSize),
                done |-> FALSE]
    /\ UNCHANGED <<conn, connections, app, inputQueue, inst, ft, workers, link>>

\* ProcessScreenUpdate decompresses it into g_pDecompressBuffer
ProcessScreenUpdate ==
    /\ call.fn = "DecompressRLE"
    /\ ~call.done
    /\ call' = Returned(call, DecompressRLE(call.out, g_decompressBufferSize))
    /\ UNCHANGED <<conn, connections, app, inputQueue, inst, ft, workers, link>>

NextScreen ==
    \/ SendScreenUpdate
    \/ ProcessScreenUpdate

SpecScreen == InitScreen /\ [][NextScreen]_vars

(* ============ the relay's worker threads, statement by statement ======= *)
(* ClientWorkerThread and ProcessRelayMessage of src/linux/relay.c with    *)
(* one step per stretch of code between two places where another thread    *)
(* can run in between: the return of RecvExact, the sections under         *)
(* connMutex (each one step, the mutex makes them atomic), the statements  *)
(* that touch the connection objects outside the mutex, and the return of  *)
(* every send().  No time passes: lastActivity stays fresh.                *)

At(a, label) == workers[a].pc = label

\* the thread of connection a goes on at label with its locals l
Goto(a, label, l) == workers' = [workers EXCEPT ![a] = [l EXCEPT !.pc = label]]

\* the thread enters SendRelayPacket(sock, ...); with INVALID_SOCKET the
\* call returns before send()
Sending(a, label, sock, l) == Goto(a, label, [l EXCEPT !.to = sock])

\* the thread is inside send() on socket s
InSend(a, s) ==
    /\ workers[a].pc \in {"dup_send", "reg_send", "notify_send", "resp_send",
                          "data_send", "disc_send", "pong_send", "bye_send"}
    /\ workers[a].to = s
    /\ s # INVALID_SOCKET

\* a thread wrote through a NULL pointer: SIGSEGV ends the relay process
Crashed == \E a \in Addr : workers[a].pc = "segv"

\* the handler returned 0: the while condition of ClientWorkerThread
Resume(a, cs) == IF LoopCondition(cs[a]) THEN "recv" ELSE "cleanup"

\* a store through pointer p: *p is the object at that address, if any
Store(cs, p, field, value) ==
    IF p # NULL /\ cs[p].alloc THEN [cs EXCEPT ![p][field] = value] ELSE cs

\* the thread of a is in RecvExact and its peer has another frame to send
InRecv(a) ==
    /\ ~Crashed
    /\ At(a, "recv")
    /\ Receiving(a)
    /\ workers[a].frames < MaxFrames

\* the locals at the start of a handler, and between handlers
Got(a) == [WorkerIdle EXCEPT !.frames = workers[a].frames + 1]
Kept(a) == [WorkerIdle EXCEPT !.frames = workers[a].frames]

Heap(cs) ==
    /\ conn' = cs
    /\ UNCHANGED <<connections, app, inputQueue, call, inst, ft, link>>

Local == UNCHANGED <<conn, connections, app, inputQueue, call, inst, ft, link>>

\* AcceptThread: accept, AddConnection, pthread_create(ClientWorkerThread)
AcceptWorker(addrs) ==
    /\ ~Crashed
    /\ ActiveConnections(connections) < MaxSlots
    /\ \E a \in addrs :
        /\ ~conn[a].alloc
        /\ At(a, "none")
        /\ conn' = [conn EXCEPT ![a] = NewConn(a)]
        /\ connections' = [connections EXCEPT ![FirstFreeSlot(connections)] = a]
        /\ Goto(a, "recv", WorkerIdle)
        /\ UNCHANGED <<app, inputQueue, call, inst, ft, link>>

\* case RELAY_MSG_REGISTER: RemoveStaleConnections, all of it under connMutex
RegisterArrives(a, clientId) ==
    /\ InRecv(a)
    /\ LET r == RemoveStaleConnections(conn, connections, clientId, a)
       IN  /\ conn' = r.conn
           /\ connections' = r.connections
           /\ IF r.bIdAvailable
              THEN Goto(a, "reg_write", [Got(a) EXCEPT !.clientId = clientId])
              ELSE Sending(a, "dup_send", conn[a].socket, Got(a))
    /\ UNCHANGED <<app, inputQueue, call, inst, ft, link>>

\* pConn->clientId = reg.clientId; state = REGISTERED; lastActivity = now;
\* then the REGISTER_RESPONSE
RegisterWrite(a) ==
    /\ ~Crashed /\ At(a, "reg_write")
    /\ Heap([conn EXCEPT ![a].clientId = workers[a].clientId,
                         ![a].state = RELAY_STATE_REGISTERED,
                         ![a].idle = 0])
    /\ Sending(a, "reg_send", conn[a].socket, Kept(a))

RegisterSent(a) ==
    /\ ~Crashed /\ At(a, "reg_send")
    /\ Goto(a, Resume(a, conn), Kept(a))
    /\ Local

\* the duplicate was answered: return -1
DuplicateSent(a) ==
    /\ ~Crashed /\ At(a, "dup_send")
    /\ Goto(a, "cleanup", Kept(a))
    /\ Local

\* case RELAY_MSG_CONNECT_REQUEST: FindConnectionById, under connMutex
ConnectRequestArrives(a, partnerId) ==
    /\ InRecv(a)
    /\ Goto(a, "conn_check",
            [Got(a) EXCEPT !.pPartner = FindConnectionById(conn, connections, partnerId)])
    /\ Local

\* the if / else if chain on pPartner and pPartner->state
ConnectCheck(a) ==
    /\ ~Crashed /\ At(a, "conn_check")
    /\ LET status == ConnectStatus(conn, workers[a].pPartner)
       IN  IF status = RD2K_SUCCESS
           THEN Goto(a, "conn_pair", [workers[a] EXCEPT !.status = status])
           ELSE Sending(a, "resp_send", conn[a].socket,
                        [Kept(a) EXCEPT !.status = status])
    /\ Local

\* the four stores of the pairing branch, then PARTNER_CONNECTED
ConnectPair(a) ==
    /\ ~Crashed /\ At(a, "conn_pair")
    /\ LET p == workers[a].pPartner
           cs1 == [conn EXCEPT ![a].pPartner = p]
           cs2 == Store(cs1, p, "pPartner", a)
           cs3 == [cs2 EXCEPT ![a].state = RELAY_STATE_PAIRED]
           cs4 == Store(cs3, p, "state", RELAY_STATE_PAIRED)
       IN  /\ Heap(cs4)
           /\ Sending(a, "notify_send", cs4[p].socket, workers[a])

\* pPartner->lastActivity = now; then the CONNECT_RESPONSE
NotifySent(a) ==
    /\ ~Crashed /\ At(a, "notify_send")
    /\ Heap(Store(conn, workers[a].pPartner, "idle", 0))
    /\ Sending(a, "resp_send", conn[a].socket,
               [Kept(a) EXCEPT !.status = workers[a].status])

\* pConn->lastActivity = now; return 0
ResponseSent(a) ==
    /\ ~Crashed /\ At(a, "resp_send")
    /\ Heap([conn EXCEPT ![a].idle = 0])
    /\ Goto(a, Resume(a, conn), Kept(a))

\* case RELAY_MSG_DATA
DataArrives(a) ==
    /\ InRecv(a)
    /\ LET p == conn[a].pPartner
       IN  IF PartnerReachable(conn, p)
           THEN Sending(a, "data_send", conn[p].socket, Got(a)) /\ Local
           ELSE /\ Heap([conn EXCEPT ![a].idle = 0])
                /\ Goto(a, Resume(a, conn), Got(a))

\* pConn->pPartner->lastActivity = now, through pConn->pPartner as it is
\* now; pConn->lastActivity = now; return 0
DataSent(a) ==
    /\ ~Crashed /\ At(a, "data_send")
    /\ IF conn[a].pPartner = NULL
       THEN Goto(a, "segv", Kept(a)) /\ Local
       ELSE LET cs == [Store(conn, conn[a].pPartner, "idle", 0) EXCEPT ![a].idle = 0]
            IN  Heap(cs) /\ Goto(a, Resume(a, cs), Kept(a))

\* the stores of case RELAY_MSG_DISCONNECT after the notification
DisconnectStores(cs, a, p) ==
    LET cs1 == Store(cs, p, "state", RELAY_STATE_DISCONNECTED)
        cs2 == Store(cs1, p, "pPartner", NULL)
    IN  [cs2 EXCEPT ![a].pPartner = NULL]

\* case RELAY_MSG_DISCONNECT
DisconnectArrives(a) ==
    /\ InRecv(a)
    /\ LET p == conn[a].pPartner
           cs == [conn EXCEPT ![a].state = RELAY_STATE_DISCONNECTED]
       IN  IF p = NULL
           THEN Heap(cs) /\ Goto(a, "cleanup", Got(a))
           ELSE IF PartnerReachable(cs, p)
           THEN Heap(cs) /\ Sending(a, "disc_send", cs[p].socket,
                                    [Got(a) EXCEPT !.pPartner = p])
           ELSE Heap(DisconnectStores(cs, a, p)) /\ Goto(a, "cleanup", Got(a))

\* return 1
DisconnectSent(a) ==
    /\ ~Crashed /\ At(a, "disc_send")
    /\ Heap(DisconnectStores(conn, a, workers[a].pPartner))
    /\ Goto(a, "cleanup", Kept(a))

\* case RELAY_MSG_PING
PingArrives(a) ==
    /\ InRecv(a)
    /\ Sending(a, "pong_send", conn[a].socket, Got(a))
    /\ Local

PongSent(a) ==
    /\ ~Crashed /\ At(a, "pong_send")
    /\ Heap([conn EXCEPT ![a].idle = 0])
    /\ Goto(a, Resume(a, conn), Kept(a))

\* RecvExact failed or the frame is rejected before dispatch; or the handler
\* returned -1 for an unknown message type: break
LoopBreaks(a) ==
    /\ ~Crashed /\ At(a, "recv")
    /\ Goto(a, "cleanup", Kept(a))
    /\ Local

\* pConn->state = DISCONNECTED; pConn->pPartner = NULL
CleanupStores(cs, a) ==
    [cs EXCEPT ![a].state = RELAY_STATE_DISCONNECTED, ![a].pPartner = NULL]

\* the cleanup block: if (pConn->pPartner && pConn->pPartner->socket != ...)
Cleanup(a) ==
    /\ ~Crashed /\ At(a, "cleanup")
    /\ LET p == conn[a].pPartner
       IN  IF PartnerReachable(conn, p)
           THEN Sending(a, "bye_send", conn[p].socket, Kept(a)) /\ Local
           ELSE Heap(CleanupStores(conn, a)) /\ Goto(a, "remove", Kept(a))

\* pConn->pPartner->pPartner = NULL; pConn->pPartner->state = DISCONNECTED,
\* through pConn->pPartner as it is now
PartnerLeftSent(a) ==
    /\ ~Crashed /\ At(a, "bye_send")
    /\ IF conn[a].pPartner = NULL
       THEN Goto(a, "segv", Kept(a)) /\ Local
       ELSE LET p == conn[a].pPartner
                cs1 == Store(conn, p, "pPartner", NULL)
                cs2 == Store(cs1, p, "state", RELAY_STATE_DISCONNECTED)
            IN  Heap(CleanupStores(cs2, a)) /\ Goto(a, "remove", Kept(a))

\* "Remove from server array", under connMutex
RemoveFromArray(a) ==
    /\ ~Crashed /\ At(a, "remove")
    /\ connections' = [i \in Slots |-> IF connections[i] = a THEN NULL
                                       ELSE connections[i]]
    /\ Goto(a, "free", Kept(a))
    /\ UNCHANGED <<conn, app, inputQueue, call, inst, ft, link>>

\* close(pConn->socket); free(pConn->recvBuffer); free(pConn); return.
\* The allocator hands out every address once: at most NumAddr connections
\* are accepted in a run.
FreeConnection(a) ==
    /\ ~Crashed /\ At(a, "free")
    /\ Heap([conn EXCEPT ![a] = FreedConn])
    /\ Goto(a, "done", WorkerIdle)

WorkerStep(a) ==
    \/ \E id \in Ids : RegisterArrives(a, id)
    \/ RegisterWrite(a)
    \/ RegisterSent(a)
    \/ DuplicateSent(a)
    \/ \E id \in Ids : ConnectRequestArrives(a, id)
    \/ ConnectCheck(a)
    \/ ConnectPair(a)
    \/ NotifySent(a)
    \/ ResponseSent(a)
    \/ DataArrives(a)
    \/ DataSent(a)
    \/ DisconnectArrives(a)
    \/ DisconnectSent(a)
    \/ PingArrives(a)
    \/ PongSent(a)
    \/ LoopBreaks(a)
    \/ Cleanup(a)
    \/ PartnerLeftSent(a)
    \/ RemoveFromArray(a)
    \/ FreeConnection(a)

\* the relay serving MaxThreads clients that send any frames
NextWorkers ==
    \/ AcceptWorker(1..MaxThreads)
    \/ \E a \in 1..MaxThreads : WorkerStep(a)

SpecWorkers == Init /\ [][NextWorkers]_vars

\* a client that follows the protocol: it registers the id of its machine
\* (here its address), then asks for a partner
ClientRegisters(a) == workers[a].frames = 0 /\ RegisterArrives(a, a)

ClientConnects(a, partnerId) ==
    workers[a].frames = 1 /\ ConnectRequestArrives(a, partnerId)

PairingStep(a) ==
    \/ ClientRegisters(a)
    \/ RegisterWrite(a)
    \/ RegisterSent(a)
    \/ \E id \in Addr : ClientConnects(a, id)
    \/ ConnectCheck(a)
    \/ ConnectPair(a)
    \/ NotifySent(a)
    \/ ResponseSent(a)
    \/ LoopBreaks(a)
    \/ Cleanup(a)
    \/ PartnerLeftSent(a)
    \/ RemoveFromArray(a)
    \/ FreeConnection(a)

\* the relay serving NumAddr such clients, each with an id of its own
NextPairing ==
    \/ AcceptWorker(Addr)
    \/ \E a \in Addr : PairingStep(a)

SpecPairing == Init /\ [][NextPairing]_vars

(* ============== the viewer's threads on the relay socket =============== *)
\* an event on g_relaySocket: thread by enters or leaves send() with a frame
SocketEvent(by, msgType, event) == [by |-> by, msgType |-> msgType, event |-> event]

ApplyLink(l) ==
    /\ link' = l
    /\ UNCHANGED <<conn, connections, app, inputQueue, call, inst, ft, workers>>

\* the GUI thread is in its message loop and the log has room
MessageLoop == link.main = "idle" /\ Len(link.wire) < MaxWire

\* ConnectToPartnerViaRelay: the button, g_bConnecting = TRUE, CreateThread
ConnectToPartnerViaRelay ==
    /\ MessageLoop
    /\ ~link.g_bConnecting
    /\ ~link.g_bClientConnected2
    /\ ApplyLink([link EXCEPT !.g_bConnecting = TRUE, !.thread = "enter"])

\* WM_TIMER, TIMER_RELAY_CHECK: Relay_CheckConnection calls send() with a PING
RelayCheckBegins ==
    /\ MessageLoop
    /\ ~link.g_bClientConnected2
    /\ ApplyLink([link EXCEPT !.main = "send",
                              !.wire = Append(@, SocketEvent("main", "PING", "enter"))])

\* send() returned RD2K_SUCCESS: the relay is reachable
RelayCheckEnds ==
    /\ link.main = "send"
    /\ ApplyLink([link EXCEPT !.main = "idle",
                              !.wire = Append(@, SocketEvent("main", "PING", "leave"))])

\* ConnectThreadProc: EnterCriticalSection(&g_csRelay), Relay_RequestPartner
\* calls send() with the CONNECT_REQUEST
RequestPartnerBegins ==
    /\ link.thread = "enter"
    /\ link.g_csRelay = "free"
    /\ ApplyLink([link EXCEPT !.g_csRelay = "ConnectThreadProc", !.thread = "send",
                              !.wire = Append(@, SocketEvent("ConnectThreadProc",
                                                             "CONNECT_REQUEST", "enter"))])

\* send() returned; on an error the thread leaves the section and posts the
\* result, otherwise it goes on to Relay_WaitForConnection
RequestPartnerEnds(ok) ==
    /\ link.thread = "send"
    /\ ApplyLink([link EXCEPT
                    !.thread = IF ok THEN "wait" ELSE "posted",
                    !.g_csRelay = IF ok THEN @ ELSE "free",
                    !.result = IF ok THEN @ ELSE RD2K_ERR_CONNECT,
                    !.wire = Append(@, SocketEvent("ConnectThreadProc",
                                                   "CONNECT_REQUEST", "leave"))])

\* Relay_WaitForConnection returned: LeaveCriticalSection, the handshake
\* with the partner, PostMessage(WM_APP_CONNECT_RESULT)
WaitForConnectionEnds(result) ==
    /\ link.thread = "wait"
    /\ ApplyLink([link EXCEPT !.thread = "posted", !.g_csRelay = "free",
                              !.result = result])

\* WM_APP_CONNECT_RESULT: HandleConnectResult
HandleConnectResult ==
    /\ link.main = "idle"
    /\ link.thread = "posted"
    /\ ApplyLink([link EXCEPT !.g_bConnecting = FALSE, !.thread = "none",
                              !.result = RD2K_SUCCESS,
                              !.g_bClientConnected2 = link.result = RD2K_SUCCESS])

\* DisconnectFromPartner: the session ends, the relay link stays
DisconnectFromPartner ==
    /\ link.main = "idle"
    /\ link.g_bClientConnected2
    /\ ApplyLink([link EXCEPT !.g_bClientConnected2 = FALSE])

NextLink ==
    \/ ConnectToPartnerViaRelay
    \/ RelayCheckBegins
    \/ RelayCheckEnds
    \/ RequestPartnerBegins
    \/ \E ok \in BOOLEAN : RequestPartnerEnds(ok)
    \/ \E result \in {RD2K_SUCCESS, RD2K_ERR_CONNECT} : WaitForConnectionEnds(result)
    \/ HandleConnectResult
    \/ DisconnectFromPartner

SpecLink == Init /\ [][NextLink]_vars

(* ------------------- file chunks on the byte stream -------------------- *)
\* the RD2K_HEADER of the MSG_FILE_DATA frame of chunk chunkIndex
HeaderBytes(chunkIndex) == [chunk |-> chunkIndex, part |-> 0]

\* piece k of the payload (RD2K_FILE_CHUNK and the file's bytes) of the frame
\* of chunk chunkIndex; one send() takes at most 16384 bytes of it
PayloadBytes(chunkIndex, k) == [chunk |-> chunkIndex, part |-> k]

\* the thread is at the top of the while (totalSent < fileSize) loop
InitChunkWire ==
    [fn |-> "SendFileThreadProc", at |-> "loop", chunkIndex |-> 0,
     retryCount |-> 0, totalSent |-> 0, wire |-> <<>>]

\* a file of WireChunks chunks is being sent; MSG_FILE_START has gone out
InitChunks ==
    /\ Quiet
    /\ call = InitChunkWire

\* Network_SendPacket returned RD2K_SUCCESS: break, totalSent += chunkSize,
\* chunkIndex++
ChunkSent(c) ==
    [c EXCEPT !.at = IF c.chunkIndex + 1 < WireChunks THEN "loop" ELSE "end",
              !.chunkIndex = c.chunkIndex + 1,
              !.retryCount = 0,
              !.totalSent = 0]

\* Network_SendPacket returned RD2K_ERR_SEND: retryCount++, Sleep and go
\* round again, or leave the loop with FT_ERR_NETWORK
ChunkFailed(c) ==
    [c EXCEPT !.at = IF c.retryCount + 1 < THREAD_MAX_RETRIES THEN "loop" ELSE "error",
              !.retryCount = c.retryCount + 1,
              !.totalSent = 0]

\* Network_SendPacket: Network_Send(header) puts the header on the stream
HeaderSent ==
    /\ call.fn = "SendFileThreadProc"
    /\ call.at = "loop"
    /\ call' = [call EXCEPT !.at = "data",
                            !.wire = Append(call.wire, HeaderBytes(call.chunkIndex))]
    /\ UNCHANGED <<conn, connections, app, inputQueue, inst, ft, workers, link>>

\* Network_SendPacket: Network_Send(header) gives up (select or send failed,
\* or MAX_RETRY_COUNT waits went by) before any byte went out
HeaderFails ==
    /\ call.fn = "SendFileThreadProc"
    /\ call.at = "loop"
    /\ call' = ChunkFailed(call)
    /\ UNCHANGED <<conn, connections, app, inputQueue, inst, ft, workers, link>>

\* Network_Send(data): send() takes the next sent pieces of the payload;
\* totalSent += sent, and the call returns RD2K_SUCCESS at the payload's end
PayloadSendReturns(sent) ==
    /\ call.fn = "SendFileThreadProc"
    /\ call.at = "data"
    /\ call.totalSent + sent <= PayloadSends
    /\ LET wire == call.wire \o [k \in 1..sent |->
                                    PayloadBytes(call.chunkIndex, call.totalSent + k)]
           c == [call EXCEPT !.wire = wire, !.totalSent = call.totalSent + sent]
       IN  call' = IF c.totalSent = PayloadSends THEN ChunkSent(c) ELSE c
    /\ UNCHANGED <<conn, connections, app, inputQueue, inst, ft, workers, link>>

\* Network_Send(data) gives up with totalSent pieces of the payload out
PayloadSendFails ==
    /\ call.fn = "SendFileThreadProc"
    /\ call.at = "data"
    /\ call' = ChunkFailed(call)
    /\ UNCHANGED <<conn, connections, app, inputQueue, inst, ft, workers, link>>

NextChunks ==
    \/ HeaderSent
    \/ HeaderFails
    \/ \E sent \in 1..PayloadSends : PayloadSendReturns(sent)
    \/ PayloadSendFails

SpecChunks == InitChunks /\ [][NextChunks]_vars

(* ===================== properties of the relay ========================= *)
\* the connection at address a is in pServer->connections
InTable(a) == \E i \in Slots : connections[i] = a

\* the frames of w written to socket s, in order
FramesTo(w, s) == SelectSeq(w, LAMBDA f : f.to = s)

\* w holds a PARTNER_DISCONNECTED frame written to socket s
PartnerDisconnectedSentTo(w, s) ==
    \E k \in 1..Len(w) : w[k].msgType = "PARTNER_DISCONNECTED" /\ w[k].to = s

RegisterResponse(a, status) ==
    Frame(conn[a].socket, "REGISTER_RESPONSE", 8, status, 0)

ConnectResponse(a, status) ==
    Frame(conn[a].socket, "CONNECT_RESPONSE", 8, status, 0)

(* ------------------------------- C1 ------------------------------------ *)
\* C1: the partner relation is symmetric: whenever the partner of a
\* connection A is B, the partner of B is A
C1_PartnerSymmetric ==
    \A a, b \in Addr :
        (InTable(a) /\ InTable(b) /\ conn[a].pPartner = b) => conn[b].pPartner = a

(* ------------------------------- C2 ------------------------------------ *)
\* X is Paired under id and y is another connection whose worker can receive
PairedHolder(x, y, id) ==
    /\ x # y
    /\ Receiving(y)
    /\ conn[x].alloc
    /\ conn[x].state = RELAY_STATE_PAIRED
    /\ conn[x].clientId = id

\* the iteration o answered y with REGISTER_RESPONSE{DUPLICATE} first, closed
\* and freed y, and left x as it was, its socket open and x in the table
DuplicateRejected(x, y, o) ==
    /\ o.wire # <<>>
    /\ Head(o.wire) = RegisterResponse(y, "RELAY_REGISTER_DUPLICATE")
    /\ o.exits
    /\ ~o.conn[y].alloc
    /\ o.conn[x] = conn[x]
    /\ conn[x].socket # INVALID_SOCKET
    /\ \E i \in Slots : o.connections[i] = x

BecomesPaired(a) ==
    /\ conn'[a].alloc
    /\ conn'[a].state = RELAY_STATE_PAIRED
    /\ conn[a].state # RELAY_STATE_PAIRED

\* C3: a connection's state becomes Paired only in a step that handles a
\* CONNECT_REQUEST sent by a Registered connection and naming a connection
\* that is Registered at that moment, and the connection is one of the two
C3_PairedOnlyByRegisteredRequest ==
    [][\A a \in Addr :
          BecomesPaired(a) =>
            \E r \in Addr, id \in Ids :
               /\ RecvConnectRequest(r, id)
               /\ conn[r].state = RELAY_STATE_REGISTERED
               /\ LET t == FindConnectionById(conn, connections, id)
                  IN  t # NULL /\ conn[t].state = RELAY_STATE_REGISTERED
                               /\ a \in {r, t}]_vars

(* ------------------------------- C4 ------------------------------------ *)
\* the iteration o of c's worker did not pair c, wrote to no socket but c's
\* and changed no other connection's state
Inert(c, o) ==
    /\ o.conn[c].state # RELAY_STATE_PAIRED
    /\ \A k \in 1..Len(o.wire) : o.wire[k].to = conn[c].socket
    /\ \A b \in Addr \ {c} : o.conn[b].state = conn[b].state

\* C4: a CONNECT_REQUEST or DATA from a connection in state Connected never
\* pairs it, writes nothing to another connection's socket and leaves every
\* other connection's state as it was
C4_UnregisteredIsInert ==
    \A c \in Addr :
        (Receiving(c) /\ conn[c].state = RELAY_STATE_CONNECTED) =>
            /\ \A id \in Ids : Inert(c, OnConnectRequest(c, id))
            /\ \A flags \in Flags, data \in Payloads :
                  Inert(c, OnData(c, flags, data))

(* ------------------------------- C5 ------------------------------------ *)
\* C5: when A's partner is B, both are Paired, and B's worker exits because
\* its socket closed, a PARTNER_DISCONNECTED frame is written to A and A's
\* state becomes Disconnected
C5_PartnerLeftDelivered ==
    \A a, b \in Addr :
        (/\ a # b
         /\ Receiving(a) /\ Receiving(b)
         /\ conn[a].state = RELAY_STATE_PAIRED
         /\ conn[b].state = RELAY_STATE_PAIRED
         /\ conn[a].pPartner = b) =>
            LET o == OnError(b)
            IN  /\ o.exits
                /\ PartnerDisconnectedSentTo(o.wire, conn[a].socket)
                /\ o.conn[a].state = RELAY_STATE_DISCONNECTED

(* ------------------------------- C6 ------------------------------------ *)
\* the iterations of c's worker (Windows build) that end in its cleanup:
\* a receive error, an unknown message, DISCONNECT, a rejected REGISTER
Terminations(c) ==
    {o \in {WinOnError(c), WinOnUnknown(c), WinOnDisconnect(c)} \cup
            {WinOnRegister(c, id) : id \in Ids} : o.exits}

\* C6: when a Paired connection's worker terminates, whatever made it leave
\* its loop, a PARTNER_DISCONNECTED frame is written to its partner, if the
\* partner is alive, and the partner's state is then Disconnected; stated for
\* two connections registered under different non-zero ids and paired with
\* each other (Windows build)
C6_PartnerOfTerminatedIsDisconnected ==
    \A c, p \in Addr :
        (/\ c # p
         /\ WinReceiving(c) /\ WinReceiving(p)
         /\ conn[c].state = RELAY_STATE_PAIRED
         /\ conn[p].state = RELAY_STATE_PAIRED
         /\ conn[c].pPartner = p /\ conn[p].pPartner = c
         /\ conn[c].clientId # 0 /\ conn[p].clientId # 0
         /\ conn[c].clientId # conn[p].clientId) =>
            \A o \in Terminations(c) :
                /\ PartnerDisconnectedSentTo(o.wire, conn[p].socket)
                /\ o.conn[p].state = RELAY_STATE_DISCONNECTED

(* ------------------------------- C7 ------------------------------------ *)
\* x is in the table, Registered under id, less than 5 s after its last
\* activity, and y is a new connection: accepted, in state Connected
FreshHolder(x, y, id) ==
    /\ x # y
    /\ Receiving(y)
    /\ conn[y].state = RELAY_STATE_CONNECTED
    /\ InTable(x)
    /\ conn[x].state = RELAY_STATE_REGISTERED
    /\ conn[x].clientId = id
    /\ conn[x].idle < 5000

\* C7: a holder X is Registered under id I with less than 5 s since its last
\* activity, and a new connection Y (state Connected) sends REGISTER(I): Y is
\* answered REGISTER_RESPONSE{DUPLICATE} and closed, nothing else is written,
\* and X stays as it was, Registered and in the table
C7_FreshHolderKeepsId ==
    \A x, y \in Addr, id \in Ids :
        FreshHolder(x, y, id) =>
            LET o == OnRegister(y, id)
            IN  /\ DuplicateRejected(x, y, o)
                /\ Len(o.wire) = 1

\* C7: a new connection's REGISTER of a non-zero id, whose holder has been
\* idle for some time under 5 s, is rejected that way
C7_Witness ==
    \E x, y \in Addr, id \in Ids :
        /\ FreshHolder(x, y, id)
        /\ id # 0
        /\ conn[x].idle > 0
        /\ DuplicateRejected(x, y, OnRegister(y, id))

(* ------------------------------- C8 ------------------------------------ *)
\* the other connections in the table under id
Holders(y, id) ==
    {x \in Addr \ {y} : InTable(x) /\ conn[x].clientId = id}

\* Registered and idle for 5 s or more, or Connected, or Disconnected
Replaceable(c) ==
    \/ c.state = RELAY_STATE_REGISTERED /\ c.idle >= 5000
    \/ c.state \in {RELAY_STATE_CONNECTED, RELAY_STATE_DISCONNECTED}

\* the iteration o closed the holders' sockets and freed their slots, made y
\* Registered under id, kept y connected and answered it
\* REGISTER_RESPONSE{OK} and nothing else
Replaced(y, id, o) ==
    /\ \A x \in Holders(y, id) :
          /\ o.conn[x].socket = INVALID_SOCKET
          /\ \A i \in Slots : o.connections[i] # x
    /\ o.conn[y].state = RELAY_STATE_REGISTERED
    /\ o.conn[y].clientId = id
    /\ o.conn[y].socket = conn[y].socket
    /\ ~o.exits
    /\ o.wire = <<RegisterResponse(y, "RELAY_REGISTER_OK")>>

\* C8: every other connection in the table under id I is Registered and idle
\* for at least 5 s, or Connected, or Disconnected, and a new connection Y
\* (state Connected) sends REGISTER(I): those holders' sockets are closed and
\* their slots freed, Y becomes Registered with id I, stays connected and is
\* answered REGISTER_RESPONSE{OK}
C8_StaleHoldersReplaced ==
    \A y \in Addr, id \in Ids :
        (/\ Receiving(y)
         /\ conn[y].state = RELAY_STATE_CONNECTED
         /\ \A x \in Holders(y, id) : Replaceable(conn[x])) =>
            Replaced(y, id, OnRegister(y, id))

\* C8: a registration of a non-zero id, idle for 5 s or more, is taken over
\* by a new connection
C8_Witness ==
    \E y \in Addr, id \in Ids :
        /\ Receiving(y)
        /\ conn[y].state = RELAY_STATE_CONNECTED
        /\ id # 0
        /\ \E x \in Holders(y, id) :
              conn[x].state = RELAY_STATE_REGISTERED /\ conn[x].idle >= 5000
        /\ Replaced(y, id, OnRegister(y, id))

(* ------------------------------- C9 ------------------------------------ *)
\* C9: a Registered connection A sends CONNECT_REQUEST naming a Registered
\* connection B: both become Paired with each other, A is answered
\* CONNECT_RESPONSE{RD2K_SUCCESS} and B is sent PARTNER_CONNECTED carrying
\* A's id; stated for different non-zero ids (Windows build)
C9_PairingNotifiesBoth ==
    \A a, b \in Addr :
        (/\ a # b
         /\ WinReceiving(a) /\ WinReceiving(b)
         /\ conn[a].state = RELAY_STATE_REGISTERED
         /\ conn[b].state = RELAY_STATE_REGISTERED
         /\ conn[a].clientId # 0 /\ conn[b].clientId # 0
         /\ conn[a].clientId # conn[b].clientId
         /\ FindConnectionById(conn, connections, conn[b].clientId) = b) =>
            LET o == WinOnConnectRequest(a, conn[b].clientId)
            IN  /\ o.conn[a].state = RELAY_STATE_PAIRED
                /\ o.conn[b].state = RELAY_STATE_PAIRED
                /\ o.conn[a].pPartner = b
                /\ o.conn[b].pPartner = a
                /\ FramesTo(o.wire, conn[a].socket) = <<ConnectResponse(a, RD2K_SUCCESS)>>
                /\ FramesTo(o.wire, conn[b].socket) =
                      <<Frame(conn[b].socket, "PARTNER_CONNECTED", 8, conn[a].clientId, 0)>>

(* ------------------------------- C10 ----------------------------------- *)
\* the connection FindConnectionById returns for id is Paired, and r's worker
\* can receive
BusyTarget(r, id) ==
    LET t == FindConnectionById(conn, connections, id)
    IN  Receiving(r) /\ t # NULL /\ conn[t].state = RELAY_STATE_PAIRED

\* the iteration o wrote CONNECT_RESPONSE{RD2K_ERR_CONNECT} to r and nothing
\* else, and left the state and partner of the target and of r as they were
Refused(r, id, o) ==
    LET t == FindConnectionById(conn, connections, id)
    IN  /\ o.wire = <<ConnectResponse(r, RD2K_ERR_CONNECT)>>
        /\ o.conn[t].state = conn[t].state
        /\ o.conn[t].pPartner = conn[t].pPartner
        /\ o.conn[r].state = conn[r].state
        /\ o.conn[r].pPartner = conn[r].pPartner

\* C10: a CONNECT_REQUEST naming a connection that is already Paired is
\* answered CONNECT_RESPONSE{RD2K_ERR_CONNECT}; nobody is told of a pairing,
\* the target keeps its state and partner, and so does the requester
C10_BusyTargetRefused ==
    \A r \in Addr, id \in Ids :
        BusyTarget(r, id) => Refused(r, id, OnConnectRequest(r, id))

\* C10: a Registered third connection asks for a connection that is paired
\* with another one, and is refused that way
C10_Witness ==
    \E r \in Addr, id \in Ids :
        LET t == FindConnectionById(conn, connections, id)
        IN  /\ BusyTarget(r, id)
            /\ conn[r].state = RELAY_STATE_REGISTERED
            /\ t # r
            /\ conn[t].pPartner \notin {NULL, r, t}
            /\ conn[conn[t].pPartner].pPartner = t
            /\ Refused(r, id, OnConnectRequest(r, id))

(* ------------------------------- C11 ----------------------------------- *)
\* the iteration o wrote exactly one frame: RELAY_MSG_DATA, to socket s, of
\* the length of data, whose payload decodes to what data (received under
\* flags) decodes to
ForwardedOnceTo(o, s, flags, data) ==
    /\ Len(o.wire) = 1
    /\ o.wire[1].to = s
    /\ o.wire[1].msgType = "DATA"
    /\ o.wire[1].dataLength = Len(data)
    /\ Decoded(1, o.wire[1].d1) = Decoded(flags, data)

\* C11: every RELAY_MSG_DATA frame received from a Paired connection is
\* written to its partner's socket as one RELAY_MSG_DATA frame with the same
\* payload, and nothing is written to any other socket
C11_DataForwardedToPartner ==
    \A a \in Addr :
        (Receiving(a) /\ conn[a].state = RELAY_STATE_PAIRED) =>
            \A flags \in Flags, data \in Payloads :
                /\ conn[a].pPartner # NULL
                /\ ForwardedOnceTo(OnData(a, flags, data),
                                   conn[conn[a].pPartner].socket, flags, data)

(* ------------------------------- C12 ----------------------------------- *)
\* C12: a connection from which nothing has arrived for more than 5 s is
\* declared inactive and closed the next time its worker finds nothing to
\* read (Windows build, where lastActivity is the time of the connection's
\* own last message)
C12_SilentConnectionClosed ==
    \A a \in Addr :
        (WinReceiving(a) /\ conn[a].idle > CLIENT_INACTIVITY_TIMEOUT_MS) =>
            WinOnNothing(a).exits

(* ------------------------------- C13 ----------------------------------- *)
\* a and p, registered under different non-zero ids, are Paired with each
\* other, both workers can receive, and a has been inactive for more than 5 s
InactivePaired(a, p) ==
    /\ a # p
    /\ conn[a].clientId # 0 /\ conn[p].clientId # 0
    /\ conn[a].clientId # conn[p].clientId
    /\ Receiving(a) /\ Receiving(p)
    /\ conn[a].state = RELAY_STATE_PAIRED
    /\ conn[p].state = RELAY_STATE_PAIRED
    /\ conn[a].pPartner = p /\ conn[p].pPartner = a
    /\ InactivityExpired(conn[a])

\* C13: when a Paired connection is closed for inactivity, its partner is
\* sent PARTNER_DISCONNECTED{reason = TIMEOUT, partnerId = the id of the
\* connection that timed out} and becomes Disconnected
C13_TimeoutReasonSent ==
    \A a, p \in Addr :
        InactivePaired(a, p) =>
            LET o == OnNothing(a)
            IN  /\ o.exits
                /\ FramesTo(o.wire, conn[p].socket) =
                      <<Frame(conn[p].socket, "PARTNER_DISCONNECTED", 8,
                              RELAY_DISCONNECT_TIMEOUT, conn[a].clientId)>>
                /\ o.conn[p].state = RELAY_STATE_DISCONNECTED

(* ------------------------------- C14 ----------------------------------- *)
\* C14: on DISCONNECT from a Paired connection c its partner p is sent one
\* PARTNER_DISCONNECTED carrying reason = NORMAL, the partner reference of
\* both is cleared and c's socket is closed; stated for two connections
\* registered under different non-zero ids and paired with each other
\* (Windows build)
C14_DisconnectNotifiesNormal ==
    \A c, p \in Addr :
        (/\ c # p
         /\ WinReceiving(c) /\ WinReceiving(p)
         /\ conn[c].state = RELAY_STATE_PAIRED
         /\ conn[p].state = RELAY_STATE_PAIRED
         /\ conn[c].pPartner = p /\ conn[p].pPartner = c
         /\ conn[c].clientId # 0 /\ conn[p].clientId # 0
         /\ conn[c].clientId # conn[p].clientId) =>
            LET o == WinOnDisconnect(c)
                w == FramesTo(o.wire, conn[p].socket)
            IN  /\ Len(w) = 1
                /\ w[1].msgType = "PARTNER_DISCONNECTED"
                /\ w[1].dataLength = 8
                /\ w[1].d1 = RELAY_DISCONNECT_NORMAL
                /\ o.conn[c].pPartner = NULL
                /\ o.conn[p].pPartner = NULL
                /\ o.exits
                /\ o.conn[c].socket = INVALID_SOCKET

(* ------------------------------- C15 ----------------------------------- *)
\* a PING from the connection at a is answered with one PONG on a's socket
\* and nothing else there, the connection's inactivity starts again from 0,
\* and the worker goes on unless the connection was already marked to stop
PingAnswered(a) ==
    LET o == OnPing(a)
    IN  /\ FramesTo(o.wire, conn[a].socket) = <<Frame(conn[a].socket, "PONG", 0, 0, 0)>>
        /\ ~o.exits => o.conn[a].idle = 0
        /\ o.exits => ~LoopCondition(conn[a])

\* with nothing to read, a worker whose connection has been inactive for 5 s
\* or less goes on
NotTimedOut(a) ==
    (conn[a].idle <= 5000 /\ LoopCondition(conn[a])) =>
        LET o == OnNothing(a)
        IN  ~o.exits /\ o.conn = conn /\ o.connections = connections

\* the inactivity of a connection grows only as time passes, and by no more
\* than the time that passed
GrowsWithTime(a) ==
    (conn[a].alloc /\ conn'[a].alloc /\ conn'[a].idle > conn[a].idle) =>
        Tick /\ conn'[a].idle <= conn[a].idle + TickMs

\* C15: every PING is answered with a PONG on the same connection and starts
\* the connection's inactivity again from 0; inactivity grows only with time,
\* and the timeout closes a connection only when it exceeds 5 s: a connection
\* that sends PING at intervals shorter than 5 s is never closed by it
C15_PingKeepsAlive ==
    /\ [](\A a \in Addr : Receiving(a) => (PingAnswered(a) /\ NotTimedOut(a)))
    /\ [][\A a \in Addr : GrowsWithTime(a)]_vars

\* C15: a connection that has been inactive for some time under 5 s sends
\* PING, is answered and kept, and is not closed when there is nothing to read
C15_Witness ==
    \E a \in Addr :
        /\ Receiving(a)
        /\ conn[a].idle > 0 /\ conn[a].idle < 5000
        /\ LoopCondition(conn[a])
        /\ PingAnswered(a)
        /\ ~OnPing(a).exits
        /\ ~OnNothing(a).exits

(* ------------------------------- C16 ----------------------------------- *)
\* the connection at a was told that its partner left: the partner's worker
\* (its cleanup, or its DISCONNECT handler) wrote PARTNER_DISCONNECTED to a's
\* socket and set a's state; a's worker has not looked at the state since
PartnerLeft(a) ==
    /\ Receiving(a)
    /\ conn[a].state = RELAY_STATE_DISCONNECTED

\* C16: after PARTNER_DISCONNECTED the client's relay connection stays
\* usable: the relay keeps the socket open while the client is silent, and a
\* CONNECT_REQUEST naming a Registered connection pairs the two without a new
\* REGISTER
C16_UsableAfterPartnerLeft ==
    \A a \in Addr :
        PartnerLeft(a) =>
            /\ ~OnNothing(a).exits
            /\ OnNothing(a).conn[a].socket = conn[a].socket
            /\ \A b \in Addr \ {a} :
                  (/\ Receiving(b)
                   /\ conn[b].state = RELAY_STATE_REGISTERED
                   /\ FindConnectionById(conn, connections, conn[b].clientId) = b) =>
                      LET o == OnConnectRequest(a, conn[b].clientId)
                      IN  /\ ~o.exits
                          /\ o.conn[a].state = RELAY_STATE_PAIRED
                          /\ o.conn[a].pPartner = b

(* ================= properties of the host application ================== *)
\* the packets of w sent on socket s
SentOn(w, s) == SelectSeq(w, LAMBDA m : m.sock = s)

\* a well-formed HANDSHAKE whose password is not the host's
WrongPassword(pkt) ==
    pkt.kind = "handshake" /\ pkt.magic /\ pkt.password # app.myPassword

\* the host is waiting for a partner
Waiting == ~app.bClientConnected /\ app.listenSocket

NoOutcome == [k \in 1..RECONNECT_MAX_ATTEMPTS |-> FALSE]

\* a wrong-password HANDSHAKE arriving on socket s ("direct" or "relay")
\* while nothing arrives on the other one
WrongHandshakeOn(s, pkt) ==
    IF s = "relay"
    THEN OnNetworkTimer(pkt, NoPacket, "none", NoOutcome)
    ELSE OnNetworkTimer(NoPacket, pkt, "none", NoOutcome)

\* C17: when a HANDSHAKE with a wrong password arrives at a waiting host,
\* directly or through the relay, the host closes the connection it arrived
\* on and sends no HANDSHAKE_ACK on it.
C17_WrongPasswordClosed ==
    \A s \in {"direct", "relay"}, pkt \in Packets :
        (/\ Waiting
         /\ (s = "relay" => app.bConnectedToRelay)
         /\ WrongPassword(pkt))
        => /\ s \in WrongHandshakeOn(s, pkt).closed
           /\ SentOn(WrongHandshakeOn(s, pkt).wire, s) = <<>>

\* the first packet of an accepted direct connection is pkt
FirstPacket(pkt) == OnNetworkTimer(NoPacket, pkt, "none", NoOutcome)

\* C18: when the first message on a connection the host has accepted is
\* not a HANDSHAKE, the host closes that connection and does not stay in
\* the Handshaking state.
C18_NonHandshakeClosed ==
    \A pkt \in Packets :
        (Waiting /\ pkt.kind = "other")
        => /\ "direct" \in FirstPacket(pkt).closed
           /\ FirstPacket(pkt).app.state # STATE_HANDSHAKE

\* the host can find the relay server gone: in a relay session, or on the
\* relay health check while it waits
LossDetectable ==
    \/ app.bClientConnected /\ app.bRelayMode /\ app.socket # "INVALID"
    \/ app.bConnectedToRelay /\ ~app.bClientConnected

OnServerLost(outcomes) == HandleRelayServerLost(app, outcomes)

AttemptsIn(log) == Len(SelectSeq(log, LAMBDA e : e.op = "attempt"))

\* attempts and sleeps alternate, starting and ending with an attempt, and
\* every sleep lasts RECONNECT_DELAY_MS
DelayedBetween(log) ==
    /\ Len(log) % 2 = 1
    /\ \A k \in 1..Len(log) :
           IF k % 2 = 1 THEN log[k] = Attempted
                        ELSE log[k] = [op |-> "sleep", ms |-> RECONNECT_DELAY_MS]

\* the first attempt that succeeds, RECONNECT_MAX_ATTEMPTS + 1 if none does
RECURSIVE FirstSuccess(_, _)
FirstSuccess(outcomes, k) ==
    IF k > RECONNECT_MAX_ATTEMPTS THEN k
    ELSE IF outcomes[k] THEN k ELSE FirstSuccess(outcomes, k + 1)

\* C19: when the relay server is lost the host makes at most
\* RECONNECT_MAX_ATTEMPTS (5) reconnection attempts, with a delay of
\* RECONNECT_DELAY_MS (2 s) between consecutive attempts, and stops at the
\* first that succeeds; if all fail it ends idle: not connected to the
\* relay, no partner session, no reconnection in progress.
C19_BoundedReconnect ==
    \A outcomes \in Outcomes :
        LossDetectable =>
            LET h == OnServerLost(outcomes)
                f == FirstSuccess(outcomes, 1)
            IN  /\ AttemptsIn(h.log) <= RECONNECT_MAX_ATTEMPTS
                /\ DelayedBetween(h.log)
                /\ ~h.app.bReconnecting
                /\ ~h.app.bClientConnected
                /\ IF f <= RECONNECT_MAX_ATTEMPTS
                   THEN AttemptsIn(h.log) = f /\ h.app.bConnectedToRelay
                   ELSE /\ AttemptsIn(h.log) = RECONNECT_MAX_ATTEMPTS
                        /\ ~h.app.bConnectedToRelay
                        /\ g_relaySocket(h.app) = "INVALID"

\* a relay session is running, and losing the server now with every
\* attempt failing takes five attempts and four sleeps
C19_Witness ==
    /\ app.bClientConnected /\ app.bRelayMode /\ app.bConnectedToRelay
    /\ Len(OnServerLost(NoOutcome).log) = 2 * RECONNECT_MAX_ATTEMPTS - 1
    /\ ~OnServerLost(NoOutcome).app.bConnectedToRelay

(* =================== properties of the input queue ===================== *)
\* the ring after the next event has been queued
Queued == QueueInputEvent(inputQueue, inputQueue.nextEvent)

\* the queue takes the new event behind the pending ones and drops nothing
TakenWithoutLoss == Pending(Queued) = Append(Pending(inputQueue), inputQueue.nextEvent)

\* the queue drops its oldest event and takes the new one behind the rest
OldestDropped ==
    Pending(Queued) = Append(Tail(Pending(inputQueue)), inputQueue.nextEvent)

NextArrival(n) == IF n = MaxStamp THEN 1 ELSE n + 1

\* the pending events are consecutive arrivals, the newest of them the
\* latest arrival: nothing is missing between them and none is out of place
ArrivalOrdered ==
    LET p == Pending(inputQueue) IN
    /\ \A k \in 1..(Len(p) - 1) : p[k + 1] = NextArrival(p[k])
    /\ Len(p) > 0 => NextArrival(p[Len(p)]) = inputQueue.nextEvent

\* the input thread's next injection is that of the oldest pending event,
\* by the call of its type
OldestInjectedNext ==
    LET p == Pending(inputQueue) IN
    Len(p) > 0 =>
        OnInputThread(inputQueue) =
            <<[call |-> IF EventType(p[1]) = INPUT_EVT_KEY
                        THEN "DoKeyPress" ELSE "DoMouse",
               evt  |-> p[1]]>>

\* a step in which the input thread took an event off the ring
Dequeued ==
    /\ inputQueue'.head = inputQueue.head
    /\ inputQueue'.tail # inputQueue.tail

\* C21: the events that are not dropped are injected in the order in which
\* they arrived from the network, mouse and keyboard events alike: the
\* pending events are always consecutive arrivals, the input thread always
\* injects the oldest of them, and taking it leaves the others in place.
C21_InjectedInArrivalOrder ==
    /\ [](ArrivalOrdered /\ OldestInjectedNext)
    /\ [][Dequeued => Pending(inputQueue') = Tail(Pending(inputQueue))]_vars

\* events of both types wait in the ring after the thread has taken some
C21_Witness ==
    /\ inputQueue.tail > 0
    /\ PendingCount(inputQueue) >= 2
    /\ EventType(Pending(inputQueue)[1]) = INPUT_EVT_MOUSE
    /\ EventType(Pending(inputQueue)[2]) = INPUT_EVT_KEY
(* =================== properties of packet framing ====================== *)
\* Network_RecvPacket has returned for the frame in call.in
Received ==
    /\ call.fn = "Network_RecvPacket"
    /\ call.done

\* the frame's payload arrived whole and fits the receive buffer
ArrivedWhole ==
    /\ call.in.failAt = "none"
    /\ call.in.dataLength <= MaxDataLength

\* the header's checksum is not the checksum of the payload
ChecksumMismatch == call.in.checksum # CalculateChecksum(call.in.payload)

\* C22: a frame whose payload checksum does not match the checksum in its
\* header is rejected with a protocol error (RD2K_ERR_PROTOCOL)
C22_MismatchRejected ==
    (Received /\ ArrivedWhole /\ ChecksumMismatch)
        => call.out = RD2K_ERR_PROTOCOL

(* =================== properties of the relay process =================== *)
\* C23: at no time do two relay processes both hold the single-instance
\* lock, also when one starts while another is shutting down
C23_OneLockHolder ==
    \A p, q \in Procs :
        (HoldsLock(inst, p) /\ HoldsLock(inst, q)) => p = q

\* process p has begun to shut down: its accept thread has been joined
ShuttingDown(p) ==
    /\ inst.proc[p].started
    /\ ~inst.proc[p].accepting

\* process p has released its sockets: the listening socket is closed and
\* no connection is left
SocketsReleased(p) ==
    /\ ~inst.proc[p].listenSocket
    /\ inst.proc[p].workers = 0

\* C24: on SIGINT/SIGTERM the relay stops accepting, then signals all
\* workers to exit, then waits a bounded time for them, and only then
\* releases the sockets and after them the single-instance lock
C24_ShutdownInOrder ==
    \A p \in Procs :
        /\ ShuttingDown(p) => ~inst.proc[p].g_bRunning
        /\ inst.proc[p].shouldStop => ShuttingDown(p)
        /\ inst.proc[p].waited > 0 =>
              (inst.proc[p].shouldStop /\ inst.proc[p].waited = DRAIN_WAIT_MS)
        /\ (inst.proc[p].started /\ ~inst.proc[p].listenSocket) =>
              inst.proc[p].waited = DRAIN_WAIT_MS
        /\ (inst.proc[p].started /\ ~HoldsLock(inst, p)) =>
              (SocketsReleased(p) /\ inst.proc[p].waited = DRAIN_WAIT_MS)

\* a relay went through the whole shutdown and has just given up its lock
C24_Witness ==
    \E p \in Procs :
        /\ inst.proc[p].started
        /\ inst.proc[p].pc = "unlocked"
        /\ ~HoldsLock(inst, p)
        /\ SocketsReleased(p)

(* =================== properties of the file transfer =================== *)
\* a file is being received and a cancel has been requested: the flag is
\* set or the progress dialog's Cancel was pressed
ReceiveCancelled ==
    /\ ft.state = FT_STATE_RECEIVING
    /\ ft.hFile
    /\ ft.bCancelRequested \/ Progress_IsCancelled(ft)

\* C25: after a cancel is requested on the receiving side every later
\* MSG_FILE_DATA is dropped without being written, and when MSG_FILE_END
\* arrives the partial file is deleted
C25_CancelledReceiveDeleted ==
    ReceiveCancelled =>
        /\ \A chunk \in FileChunks :
              FileTransfer_ReceiveData(ft, chunk).disk = ft.disk
        /\ FileTransfer_EndReceive(ft).disk[ft.filePath] = NoFile

\* MSG_FILE_START with the header hdr is turned away and changes nothing:
\* FT_ERR_NETWORK is the module's code for a malformed message of the peer
Rejected(hdr) ==
    LET r == FileTransfer_StartReceive(ft, hdr)
    IN  /\ r.result = FT_ERR_NETWORK
        /\ r.lastError \in {"Invalid filename", "Invalid file header"}
        /\ r.disk = ft.disk
        /\ ~r.hFile
        /\ r.state = FT_STATE_IDLE

\* the name is empty, or has a '\' or a '/' in it, or two dots in a row
BadName(name) ==
    \/ name = <<>>
    \/ \E i \in DOMAIN name : name[i] \in {"\\", "/"}
    \/ \E i, j \in DOMAIN name : j = i + 1 /\ name[i] = "." /\ name[j] = "."

\* C27: a MSG_FILE_START whose file name is empty or contains '\', '/' or
\* ".." is rejected with an error, no file is created or written, and the
\* transfer context stays idle
C27_BadFilenameRejected ==
    ft.state = FT_STATE_IDLE =>
        \A hdr \in FileHeaders :
            BadName(hdr.fileName) => Rejected(hdr)

\* a file was received before, and a MSG_FILE_START with a bad file name
\* has just been turned away
C27_Witness ==
    /\ ft.state = FT_STATE_IDLE
    /\ ft.result = FT_ERR_NETWORK
    /\ ft.lastError = "Invalid filename"
    /\ \E n \in FileNames : ft.disk[n] # NoFile

\* the delays of a log, in order
RECURSIVE Delays(_)
Delays(log) ==
    IF log = <<>> THEN <<>>
    ELSE IF Head(log).op = "sleep" THEN <<Head(log).ms>> \o Delays(Tail(log))
    ELSE Delays(Tail(log))

\* MSG_FILE_START goes out and every later send fails
ChunkNeverSent(outcomes) ==
    /\ outcomes[1]
    /\ \A k \in DOMAIN outcomes : k > 1 => ~outcomes[k]

\* the worker thread is about to send the file and no cancel was requested
AboutToSend ==
    /\ ft.state = FT_STATE_SENDING
    /\ ft.hThread
    /\ ~ft.bCancelRequested
    /\ ~Progress_IsCancelled(ft)

\* C26: when sending a chunk fails the sender retries up to three times
\* with delays of 100, 200 and 300 ms; if the send still fails the transfer
\* is aborted, a local error is raised and no MSG_FILE_END is sent
C26_ThreeRetriesThenAbort ==
    AboutToSend =>
        \A outcomes \in SendOutcomes(THREAD_MAX_RETRIES) :
            ChunkNeverSent(outcomes) =>
                LET r == SendFileThreadProc(ft, outcomes)
                IN  /\ Delays(r.log) = <<100, 200, 300>>
                    /\ r.result = FT_ERR_NETWORK
                    /\ \E k \in DOMAIN r.posted : r.posted[k].msg = "WM_FT_ERROR"
                    /\ \A k \in DOMAIN r.wire : r.wire[k] # "MSG_FILE_END"

(* ==================== properties of the Server ID ====================== *)
\* C28: for every valid IPv4 address ip and every port p in 1..65535,
\* decoding the Server ID encoded from (ip, p) returns exactly (ip, p)
C28_ServerIDRoundTrip ==
    (call.fn = "Crypto_DecodeServerID" /\ call.done) =>
        /\ call.out.rc = CRYPTO_SUCCESS
        /\ call.out.ipAddress = call.in.ipAddress
        /\ call.out.port = call.in.port

(* ==================== properties of the screen RLE ===================== *)
\* C29: for every byte sequence b, also one with 0xFF bytes in it,
\* decompressing the RLE compression of b yields exactly b
C29_RleRoundTrip ==
    (call.fn = "DecompressRLE" /\ call.done) => call.out = call.in

\* a rectangle with a lone 0xFF byte, with two 0xFF bytes in a row and with
\* a run of three equal bytes has gone through compression and back
C29_Witness ==
    /\ call.fn = "DecompressRLE"
    /\ call.done
    /\ call.in = <<255, 7, 255, 255, 0, 0>> \/ call.in = <<255, 255, 7, 7, 7, 255>>

(* ================= properties of the connection mutex ================== *)
\* C30: the connection-table mutex is held only during slot lookup,
\* insertion and removal; no socket I/O (send, close, shutdown) is ever
\* performed while it is held: neither a REGISTER handled by any worker nor
\* a stop of the relay touches a socket inside the critical section
C30_NoSocketIoUnderMutex ==
    /\ \A a \in Addr : \A clientId \in Ids :
          Receiving(a) => ClosedUnderMutex(conn, connections, clientId, a) = {}
    /\ ShutDownUnderMutex(conn, connections) = {}

(* ================ properties of the relay's worker threads ============= *)
\* the connection objects the thread of a reads or writes in its next step
\* outside connMutex: through the local pPartner of the CONNECT_REQUEST and
\* DISCONNECT cases, or through pConn->pPartner in the DATA and DISCONNECT
\* cases (a frame can arrive whenever the thread is in RecvExact) and in the
\* cleanup block
Dereferenced(a) ==
    LET w == workers[a]
        p == IF w.pc \in {"conn_check", "conn_pair", "notify_send", "disc_send"}
             THEN w.pPartner
             ELSE IF w.pc \in {"data_send", "cleanup", "bye_send"} \/ InRecv(a)
             THEN conn[a].pPartner
             ELSE NULL
    IN  IF p = NULL THEN {} ELSE {p}

\* C31: workers interact only under the connection-table mutex: no worker
\* thread is ever at a statement outside connMutex that reads or writes the
\* state, the partner reference or the activity stamp of a connection other
\* than its own.
C31_OthersTouchedUnderMutexOnly ==
    \A a \in Addr : Dereferenced(a) \subseteq {a}

(* ================= properties of the viewer's relay link =============== *)
\* the threads that are inside send() on g_relaySocket
Writers ==
    (IF link.main = "send" THEN {"main"} ELSE {})
    \cup (IF link.thread = "send" THEN {"ConnectThreadProc"} ELSE {})

\* C32: at no time do two threads of the client write to the same session
\* socket: at most one thread is inside send() on g_relaySocket, so that no
\* frame is handed to the socket while another one is being written.
C32_OneWriterAtATime == Cardinality(Writers) <= 1

(* ------------------------- concurrent REGISTER ------------------------- *)
\* the connection at address a is in the table and Registered
RegisteredInTable(a) ==
    conn[a].alloc /\ InTable(a) /\ conn[a].state = RELAY_STATE_REGISTERED

\* C33: when two connections send REGISTER with the same id at the same
\* time, at most one of them ends up Registered with it: no two Registered
\* connections in the table ever hold the same id.
C33_OneHolderPerId ==
    \A a, b \in Addr :
        a # b /\ RegisteredInTable(a) /\ RegisteredInTable(b)
            => conn[a].clientId # conn[b].clientId

(* --------------------- concurrent CONNECT_REQUEST ---------------------- *)
\* the worker of the Registered connection a found target t Registered and
\* is at the pairing branch: it will pair a with t and answer
\* CONNECT_RESPONSE{status = RD2K_SUCCESS}
Granting(a, t) ==
    /\ At(a, "conn_pair")
    /\ workers[a].status = RD2K_SUCCESS
    /\ workers[a].pPartner = t
    /\ conn[a].state = RELAY_STATE_REGISTERED

\* C34: when two Registered connections ask for the same Registered target
\* at the same time, at most one of them is granted it (is answered
\* CONNECT_RESPONSE{OK} and paired with the target).
C34_OneGrantPerTarget ==
    \A a, b, t \in Addr :
        Cardinality({a, b, t}) = 3 => ~(Granting(a, t) /\ Granting(b, t))

(* ------------------------------- C35 ----------------------------------- *)
\* C35: no connection is ever paired with itself: the partner reference of
\* a connection never points at the connection itself, also after a
\* CONNECT_REQUEST that names the requester's own registered id.
C35_NeverOwnPartner ==
    \A a \in Addr : conn[a].alloc => conn[a].pPartner # a

(* ------------------------------- C36 ----------------------------------- *)
\* C36: in every reachable state a connection has a partner reference if
\* and only if its state is Paired, also after a Paired connection sent
\* REGISTER or CONNECT_REQUEST.
C36_PartnerIffPaired ==
    \A a \in Addr :
        conn[a].alloc =>
            (conn[a].pPartner # NULL <=> conn[a].state = RELAY_STATE_PAIRED)

(* ------------------------------- C37 ----------------------------------- *)
\* C37: processing REGISTER(id) closes only connections that registered that
\* id themselves: whatever the id (0 included) and whichever connection
\* sends it, no connection that never registered (state Connected) is among
\* the connections RemoveStaleConnections closes and takes out of the table.
C37_UnregisteredNeverCleaned ==
    \A a \in Addr : \A id \in Ids :
        Receiving(a) =>
            \A b \in RemoveStaleConnections(conn, connections, id, a).cleaned :
                conn[b].state # RELAY_STATE_CONNECTED

(* ------------------------------- C38 ----------------------------------- *)
\* C38: frames the relay writes to one client socket are never interleaved:
\* the client's own worker and its partner's worker are never inside send()
\* on the same socket at the same time.
C38_OneWriterPerClientSocket ==
    \A a, b \in Addr : \A s \in Addr :
        a # b => ~(InSend(a, s) /\ InSend(b, s))

(* ============== properties of file chunks on the byte stream =========== *)
\* the MSG_FILE_DATA frame of chunk chunkIndex, whole
ChunkFrame(chunkIndex) ==
    <<HeaderBytes(chunkIndex)>> \o [k \in 1..PayloadSends |-> PayloadBytes(chunkIndex, k)]

\* the frames of chunks 0 .. n-1, each whole and once, in order
ChunkFrames(n) ==
    [i \in 1..(n * (1 + PayloadSends)) |->
        LET chunkIndex == (i - 1) \div (1 + PayloadSends)
            part == (i - 1) % (1 + PayloadSends)
        IN  [chunk |-> chunkIndex, part |-> part]]

\* C39: whenever the sender has finished a chunk (at once or after retries),
\* the byte stream holds the frame of every chunk so far exactly once and
\* whole: no partial frame and no second copy of a frame is on it.
C39_EveryChunkOnceAndWhole ==
    (call.fn = "SendFileThreadProc" /\ call.at \in {"loop", "end"} /\ call.retryCount = 0)
        => call.wire = ChunkFrames(call.chunkIndex)

\* the connection objects the thread of a is about to read or write through
\* a pointer it already holds: Dereferenced(a), leaving out a thread that
\* waits in RecvExact and touches nothing until a frame arrives
HeldPointers(a) ==
    IF At(a, "recv") THEN {} ELSE Dereferenced(a)

\* C40: no worker thread is ever about to read or write, through its local
\* pPartner or through pConn->pPartner, a connection object that has
\* already been freed.
C40_NoUseAfterFree ==
    \A a \in Addr : \A p \in HeldPointers(a) : conn[p].alloc

====
